---------------------------- MODULE Spec2Model ----------------------------
(***************************************************************************)
(* Terminal session manager of the BooTTY / Ghostty VS Code extension:     *)
(* TerminalManager (terminal-manager.ts), PtyService (pty-service.ts) and  *)
(* BooTTYPanelViewProvider (panel-view-provider.ts); and, on the webview   *)
(* side, the batched file-existence checks of webview/main.ts with the     *)
(* file cache of file-cache.ts.                                            *)
(*                                                                         *)
(* The extension host is single threaded: every handler below runs to      *)
(* completion, so each action is one whole handler, including everything   *)
(* it calls.  Handlers are written as operators from a state record to a   *)
(* state record so that they compose the way the code calls them.          *)
(*                                                                         *)
(* Session ids are UUIDs in the code; here the k-th created session has    *)
(* id k (ids are never reused).  Variables marked "history" record what    *)
(* the program did (messages posted, errors shown); the program never      *)
(* reads them.                                                             *)
(***************************************************************************)
EXTENDS Integers, Sequences, FiniteSets, TLC

\* ------------------------------------------------------------------ bounds
\* Several families of runs share the handlers below.  The lifecycle runs
\* (Spec) have several sessions and little output; the data runs (DataSpec)
\* have one session and enough output to fill its queue and overflow it; the
\* isolation runs (FrameSpec) have several sessions whose output reports a
\* working directory; the runs with configuration changes (ConfigSpec) add
\* the configuration listeners.  The file-check runs (BatchSpec, BatchFairSpec)
\* are about one webview, and CacheSpec about a file cache used on its own.
\* Sessions ever created.
MaxSessions == 2
DataSessions == 1
\* Output chunks ever emitted by all PTYs together.
MaxChunks == 1
DataChunks == 4
\* Sessions ever created and chunks ever emitted in the isolation runs.
FrameSessions == 2
FrameChunks == 1
\* Sessions ever created, and changes of each configuration version, in the
\* runs with configuration changes.
ConfigSessions == 1
ConfigChunks == 2
MaxConfigChanges == 1
\* checkFileExists calls ever made, paths they ask about, and the webview's
\* clock, in the file-check runs.
MaxCalls == 3
WebPaths == { "/a.txt", "/b.txt" }
MaxTime == 2
\* The same in the runs with fairness.
LiveCalls == 2
LiveTime == 1
\* Keys given to a file cache: the webview's paths and the empty string.
CachePaths == WebPaths \cup { "" }
\* A cache used on its own: its clock, and the largest ttlMs and maxSize it is
\* created with.
CacheTime == 2
MaxTtl == 1
MaxCacheSize == 2
\* main.ts: createFileCache(5000, 100).  The model keeps the comparisons of
\* file-cache.ts and scales both numbers down so that expiry and the capacity
\* are reached within MaxTime ticks and the paths of WebPaths.
FILE_CACHE_TTL_MS == 1
FILE_CACHE_MAX_SIZE == 2
\* Tabs in a saved panel state handed to resolveWebviewView.
MaxSavedTabs == 1
\* Times the panel view is resolved (opened) by VS Code.
MaxResolves == 1
\* The restore runs: sessions, resolves of the panel view, tabs per saved state.
RestoreSessions == 3
RestoreResolves == 2
RestoreTabs == 2

\* terminal-utils.ts: MAX_DATA_QUEUE_SIZE is 1000 in the code.  The model
\* keeps the comparison of handlePtyData and scales the number down so that
\* the cap is reached within MaxChunks chunks.
MAX_DATA_QUEUE_SIZE == 2

\* PtyService.spawn: cols: config.cols || 80, rows: config.rows || 24;
\* DEFAULT_CONFIG of terminal-utils.ts.
DEFAULT_COLS == 80
DEFAULT_ROWS == 24

\* Dimensions a webview reports in terminal-ready.
Dims == { << 100, 30 >> }

\* Exit codes a PTY reports.
ExitCodes == { 0, 1 }

\* Error messages a PTY reports, as their characters: "read EIO", "EOF",
\* "ENOMEM" and "eio".
ErrorTexts ==
    { << "r", "e", "a", "d", " ", "E", "I", "O" >>, << "E", "O", "F" >>,
      << "E", "N", "O", "M", "E", "M" >>, << "e", "i", "o" >> }

\* The payload of the OSC 7 report a chunk carries: "none" when the chunk
\* carries no report, else the text between file://host and the terminator;
\* "/a|/d" is a chunk that carries two reports, for /a and then for /d.
Osc7Payloads == { "none", "/b%20c", "/%ZZ", "/a|/d" }
\* The runs with configuration changes emit well-formed reports only.
CwdPayloads == { "none", "/b%20c" }
\* The isolation runs emit chunks that all carry a well-formed report.
ReportPayloads == { "/b%20c" }
\* The lifecycle runs emit plain output only.
PlainPayloads == { "none" }

\* Saved tab titles: <<"Terminal", n>> is the string "Terminal n", any other
\* tuple is a title the pattern /^Terminal (\d+)$/ does not match.
SavedTitles == { << "Terminal", 1 >>, << "build" >> }

\* index: undefined, currentCwd: undefined
NoIndex == 0

\* The environment variables of the resolveConfig runs and their values.
EnvNames == { "TERM_PROGRAM", "TERM_PROGRAM_VERSION", "COLORTERM", "PATH" }
EnvValues == { "u", "v" }

\* The keys of the key-event runs: event.key as the sequence of its characters.
Keys ==
    { << "c" >>, << "C" >>, << "d" >>, << "1" >>, << "\\" >>,
      << "T", "a", "b" >>, << "F", "1" >> }

\* The open-url requests of a run, and the URLs they carry.  A URL is the
\* sequence of its parts: a scheme, ":" and the rest, or whatever else the
\* webview's link detection handed over.
MaxUrlRequests == 2
AllowedUrls ==
    { << "http", ":", "//a.b/c" >>, << "https", ":", "//a.b" >>,
      << "mailto", ":", "x@a.b" >>, << "ftp", ":", "//a.b" >>,
      << "ssh", ":", "//a.b" >>, << "git", ":", "//a.b/r" >>,
      << "tel", ":", "123" >> }
OtherSchemeUrls ==
    { << "vscode", ":", "//ext/x" >>, << "file", ":", "///etc/passwd" >>,
      << "command", ":", "workbench.action.quit" >>,
      << "javascript", ":", "alert(1)" >> }
MalformedUrls ==
    { << >>, << "//a.b" >>, << "a.b/c" >>, << ":", "//a.b" >>,
      << "ht tp", ":", "//a.b" >> }
Urls == AllowedUrls \cup OtherSchemeUrls \cup MalformedUrls
NoCwd == "undefined"

VARIABLES
    terminals,        \* TerminalManager.terminals: id -> TerminalInstance
    usedIndices,      \* TerminalManager.usedIndices
    nextId,           \* the id createTerminalId() returns next
    instances,        \* PtyService.instances: id -> the held process's [cols, rows]
    procs,            \* the OS processes spawned: id -> "running" | "killed" | "exited"
    readyTimers,      \* pending ready-timeout timers (armed, not fired, not cleared)
    exitTimers,       \* pending exit-delay timers
    openPanels,       \* editor WebviewPanels not disposed
    view,             \* BooTTYPanelViewProvider._view: "none" | "visible" | "hidden"
    isReady,          \* BooTTYPanelViewProvider._isReady
    messageQueue,     \* BooTTYPanelViewProvider._messageQueue
    pendingTerminals, \* BooTTYPanelViewProvider._pendingTerminals
    resolves,         \* times resolveWebviewView has run
    chunkCount,       \* chunks emitted so far
    disposed,         \* TerminalManager.dispose() has run
    settings,         \* the version of the "bootty" / editor font configuration
    theme,            \* the version of the colour theme and colour customizations
    delivered,        \* history: id -> numbers of the chunks a webview received as pty-data
    knownCwd,         \* history: id -> cwd of the last update-cwd a webview received
    accepted,         \* history: id -> numbers of the chunks handlePtyData queued or forwarded
    handshaken,       \* history: live ids for which handleTerminalReady has run
    destroyed,        \* history: ids for which destroyTerminal has run past its guard
    fileChecks,       \* handleBatchCheckFileExists calls suspended on the file stats
    orphaned,         \* history: batch ids whose check resumed after its session was gone
    lastReport,       \* history: id -> the last OSC 7 report in the session's output
    lastResolve,      \* history: the last resolveConfig call, << >> if none
    urlLog,           \* history: the open-url requests handled and what each did
    effects,          \* what the last handler did besides changing the state above
    limits            \* the bounds of the run: [sessions, chunks, payloads, calls, time,
                      \*   resolves, savedTabs, activeFlags]

\* The webview of one terminal (webview/main.ts) and its file cache
\* (file-cache.ts).  Maps are sequences in insertion order.
VARIABLES
    now,                   \* Date.now() of the webview, in ticks
    cacheConfig,           \* createFileCache's arguments: [ttlMs, maxSize]
    fileCache,             \* the cache Map: sequence of [path, exists, timestamp]
    nextBatchId,           \* main.ts nextBatchId
    currentBatchId,        \* main.ts currentBatchId
    currentBatchCallbacks, \* main.ts currentBatchCallbacks: sequence of [path, callbacks]
    pendingBatches,        \* main.ts pendingBatches: batchId -> sequence of [path, callbacks]
    batchDebounceTimer,    \* the debounce timer is pending
    batchTimeouts,         \* batch ids whose timeout timer is pending
    requests,              \* batch-check-file-exists messages the extension has not handled
    sent,                  \* history: every batch-check-file-exists posted, in order
    calls,                 \* history: the checkFileExists calls and their promises
    reported,              \* history: the results of the replies that found their batch
    lastSet,               \* history: path -> the last set() of the cache, << >> if none
    lastGet,               \* history: the last get() of a cache used on its own
    refCache,              \* history: a reference LRU map given the same calls
    lastKey                \* history: the last key event handled, << >> if none

mgrvars == << terminals, usedIndices, nextId, instances, procs, readyTimers,
              exitTimers, openPanels, view, isReady, messageQueue, pendingTerminals,
              resolves, chunkCount, disposed, settings, theme, delivered,
              accepted, handshaken, destroyed, fileChecks, orphaned, lastReport,
              lastResolve, urlLog, knownCwd,
              effects,
              limits >>

webvars == << now, cacheConfig, fileCache, nextBatchId, currentBatchId,
              currentBatchCallbacks, pendingBatches, batchDebounceTimer,
              batchTimeouts, requests, sent, calls, reported, lastSet,
              lastGet, refCache, lastKey >>

vars == << mgrvars, webvars >>

\* The state as one record, for the handlers.  effects starts empty in every
\* handler: it lists, in order, the messages posted to the sessions' UI
\* channels, the process kills, index releases, tab removals, close-panel
\* commands, error messages and exceptions of one step.
Cur ==
    [ terminals |-> terminals, usedIndices |-> usedIndices, nextId |-> nextId,
      instances |-> instances, procs |-> procs, readyTimers |-> readyTimers,
      exitTimers |-> exitTimers, openPanels |-> openPanels, view |-> view,
      isReady |-> isReady, messageQueue |-> messageQueue,
      pendingTerminals |-> pendingTerminals, resolves |-> resolves,
      chunkCount |-> chunkCount, disposed |-> disposed, settings |-> settings,
      theme |-> theme, delivered |-> delivered, knownCwd |-> knownCwd,
      accepted |-> accepted, handshaken |-> handshaken, destroyed |-> destroyed,
      fileChecks |-> fileChecks, orphaned |-> orphaned,
      lastReport |-> lastReport, lastResolve |-> lastResolve, urlLog |-> urlLog, effects |-> << >> ]

CommitManager(t) ==
    /\ terminals' = t.terminals
    /\ usedIndices' = t.usedIndices
    /\ nextId' = t.nextId
    /\ instances' = t.instances
    /\ procs' = t.procs
    /\ readyTimers' = t.readyTimers
    /\ exitTimers' = t.exitTimers
    /\ openPanels' = t.openPanels
    /\ view' = t.view
    /\ isReady' = t.isReady
    /\ messageQueue' = t.messageQueue
    /\ pendingTerminals' = t.pendingTerminals
    /\ resolves' = t.resolves
    /\ chunkCount' = t.chunkCount
    /\ disposed' = t.disposed
    /\ settings' = t.settings
    /\ theme' = t.theme
    /\ delivered' = t.delivered
    /\ knownCwd' = t.knownCwd
    /\ accepted' = t.accepted
    /\ handshaken' = t.handshaken
    /\ destroyed' = t.destroyed
    /\ urlLog' = t.urlLog
    /\ lastReport' = t.lastReport
    /\ fileChecks' = t.fileChecks
    /\ orphaned' = t.orphaned
    /\ lastResolve' = t.lastResolve
    /\ effects' = t.effects
    /\ UNCHANGED limits

Commit(t) ==
    /\ CommitManager(t)
    /\ UNCHANGED webvars

\* One entry of effects; msg is the message of a "post" entry.
NoMsg == [ type |-> "none" ]
Effect(s, kind, id) ==
    [ s EXCEPT !.effects = Append(@, [ kind |-> kind, id |-> id, msg |-> NoMsg ]) ]
Posted(s, id, msg) ==
    [ s EXCEPT !.effects = Append(@, [ kind |-> "post", id |-> id, msg |-> msg ]) ]

Registered(s, id) == id \in DOMAIN s.terminals

\* Map.delete / Map.set on a function with a finite domain.
MapDelete(f, k) == [ x \in DOMAIN f \ {k} |-> f[x] ]
MapSet(f, k, v) == [ x \in DOMAIN f \cup {k} |-> IF x = k THEN v ELSE f[x] ]


\* ------------------------------------------------- index allocation
\* getNextIndex's loop: let index = 1; while (usedIndices.has(index)) index++
RECURSIVE FirstFreeFrom(_, _)
FirstFreeFrom(used, index) ==
    IF index \in used THEN FirstFreeFrom(used, index + 1) ELSE index

\* getNextIndex: the index returned; the caller adds it to usedIndices.
GetNextIndex(used) == FirstFreeFrom(used, 1)

\* releaseIndex(index): usedIndices.delete(index) unless index is undefined.
ReleaseIndex(used, index) == IF index # NoIndex THEN used \ {index} ELSE used

\* createPanelTerminalWithTitle: title.match(/^Terminal (\d+)$/) and parseInt.
IndexOfTitle(title) ==
    IF Len(title) = 2 /\ title[1] = "Terminal" THEN title[2] ELSE NoIndex

\* `Terminal ${index}`
DefaultTitle(index) == << "Terminal", index >>

\* ------------------------------------------------- control sequences
\* decodeURIComponent on the payloads of Osc7Payloads: "%20" decodes to a
\* space, "%ZZ" is no escape and makes it throw URIError.
DecodeThrows(payload) == payload = "/%ZZ"
DecodeURIComponent(payload) == IF payload = "/b%20c" THEN "/b c" ELSE payload

\* The reports a chunk carries, in the order in which they appear in it.
ReportsIn(payload) ==
    IF payload = "none" THEN << >>
    ELSE IF payload = "/a|/d" THEN << "/a", "/d" >>
    ELSE << payload >>

\* data.match(/\x1b\]7;file:\/\/[^/]*([^\x07\x1b]+)(?:\x07|\x1b\\)/): without
\* the g flag match returns the leftmost match, so match[1] is the path of
\* the first report of the chunk.
MatchOSC7(data) ==
    IF ReportsIn(data.osc7) = << >> THEN NoCwd ELSE Head(ReportsIn(data.osc7))

\* parseOSC7(data): the decoded path, or undefined when the chunk has no report.
ParseOSC7(data) ==
    IF MatchOSC7(data) = NoCwd THEN NoCwd ELSE DecodeURIComponent(MatchOSC7(data))

\* String.prototype.includes: word occurs in text as a substring.
Includes(text, word) ==
    \E i \in 1..(Len(text) - Len(word) + 1) :
        SubSeq(text, i, i + Len(word) - 1) = word

\* Faulty variant of IsExpectedClose: only EIO counts as an expected close.
IsExpectedCloseEIOOnly(text) == Includes(text, << "E", "I", "O" >>)

\* handlePtyError: error.message.includes("EIO") || error.message.includes("EOF")
IsExpectedClose(text) ==
    Includes(text, << "E", "I", "O" >>) \/ Includes(text, << "E", "O", "F" >>)

\* ------------------------------------------------- PtyService
\* Faulty variant of PtyKill: the killed process stays in instances.
PtyKillKeepsEntry(s, id) ==
    IF id \in DOMAIN s.instances
    THEN [ Effect(s, "kill", id) EXCEPT
              !.procs[id] = IF @ = "running" THEN "killed" ELSE @ ]
    ELSE s

\* kill(id): process.kill() and instances.delete(id), when the id is held.
\* (node-pty's kill of a process that has exited does nothing.)
PtyKill(s, id) ==
    IF id \in DOMAIN s.instances
    THEN [ Effect(s, "kill", id) EXCEPT
              !.instances = MapDelete(@, id),
              !.procs[id] = IF @ = "running" THEN "killed" ELSE @ ]
    ELSE s

\* resize(id, cols, rows): process.resize, when the id is held.
PtyResize(s, id, cols, rows) ==
    IF id \in DOMAIN s.instances
    THEN [ Effect(s, "resize", id) EXCEPT
              !.instances[id] = [ cols |-> cols, rows |-> rows ] ]
    ELSE s

\* spawn(id, config, handlers) when pty.spawn succeeds: the process runs with
\* the default size and the service holds it.
PtySpawnOk(s, id) ==
    [ s EXCEPT !.instances = MapSet(@, id, [ cols |-> DEFAULT_COLS,
                                             rows |-> DEFAULT_ROWS ]),
               !.procs = MapSet(@, id, "running") ]

\* PtyService.dispose: kill every held process, then instances.clear().
RECURSIVE PtyKillAll(_, _)
PtyKillAll(s, ids) ==
    IF ids = {} THEN s
    ELSE LET id == CHOOSE x \in ids : \A y \in ids : x <= y
         IN PtyKillAll(PtyKill(s, id), ids \ {id})

PtyDispose(s) == [ PtyKillAll(s, DOMAIN s.instances) EXCEPT !.instances = << >> ]

\* ------------------------------------------------- panel view provider
\* webview.postMessage(message): the message reaches the webview.  The
\* history keeps the pty-data and the last update-cwd a live session's
\* surface received.
Deliver(s, sid, msg) ==
    IF msg.type = "pty-data" /\ sid \in DOMAIN s.delivered
    THEN [ s EXCEPT !.delivered[sid] = Append(@, msg.data.n) ]
    ELSE IF msg.type = "update-cwd" /\ sid \in DOMAIN s.knownCwd
         THEN [ s EXCEPT !.knownCwd[sid] = msg.cwd ]
         ELSE s

\* BooTTYPanelViewProvider.postMessage: posted when the view is ready and
\* visible, queued otherwise.  sid is the session the message is about.
PanelPostMessage(s, sid, msg) ==
    IF s.isReady /\ s.view = "visible"
    THEN Deliver(s, sid, msg)
    ELSE [ s EXCEPT !.messageQueue = Append(@, [ sid |-> sid, msg |-> msg ]) ]

\* _flushMessageQueue: post every queued message in order, then empty the queue.
RECURSIVE DeliverAll(_, _)
DeliverAll(s, queue) ==
    IF queue = << >> THEN s
    ELSE DeliverAll(Deliver(s, Head(queue).sid, Head(queue).msg), Tail(queue))

FlushMessageQueue(s) ==
    IF s.view = "none" \/ ~s.isReady THEN s
    ELSE [ DeliverAll(s, s.messageQueue) EXCEPT !.messageQueue = << >> ]

\* addTerminal / removeTerminal
PanelAddTerminal(s, id, title, makeActive) ==
    LET msg == [ type |-> "add-tab", terminalId |-> id, title |-> title,
                 makeActive |-> makeActive ]
    IN  PanelPostMessage([ s EXCEPT !.effects = Append(@, [ kind |-> "add-tab",
                                                            id |-> id, msg |-> msg ]) ],
                         id, msg)

PanelRemoveTerminal(s, id) ==
    PanelPostMessage(Effect(s, "remove-tab", id), id,
                     [ type |-> "remove-tab", terminalId |-> id ])

\* get isVisible
PanelIsVisible(s) == s.view = "visible"

\* ------------------------------------------------- TerminalManager
\* Faulty variant of PostToTerminal: readiness is not looked at.
PostToTerminalAnyState(s, id, msg) ==
    IF ~Registered(s, id) THEN s
    ELSE IF s.terminals[id].location = "editor"
         THEN Deliver(Posted(s, id, msg), id, msg)
         ELSE PanelPostMessage(Posted(s, id, msg), id, msg)

\* instance.panel.webview.postMessage(message): the webview getter of a
\* WebviewPanel that has been disposed throws.
WebviewPostMessage(s, id, msg) ==
    IF id \in s.openPanels THEN Deliver(Posted(s, id, msg), id, msg)
    ELSE Effect(s, "DisposedError", id)

\* postToTerminal posting through a panel handle of its caller instead of
\* looking the session up in the registry.
PostToTerminalNoLookup(s, id, msg) ==
    IF Registered(s, id) /\ ~s.terminals[id].ready THEN s
    ELSE IF Registered(s, id) /\ s.terminals[id].location = "panel"
         THEN PanelPostMessage(Posted(s, id, msg), id, msg)
         ELSE WebviewPostMessage(s, id, msg)

\* postToTerminal(id, message)
PostToTerminal(s, id, msg) ==
    IF ~Registered(s, id) \/ ~s.terminals[id].ready THEN s
    ELSE IF s.terminals[id].location = "editor"
         THEN WebviewPostMessage(s, id, msg)
         ELSE PanelPostMessage(Posted(s, id, msg), id, msg)

\* vscode.window.showErrorMessage; kind is "spawn", "timeout" or "error".
ShowErrorMessage(s, id, kind) == Effect(s, kind, id)


\* The panel-topology sessions left in the registry.
PanelTerminals(s) == { x \in DOMAIN s.terminals : s.terminals[x].location = "panel" }

RECURSIVE DestroyTerminal(_, _)

\* WebviewPanel.dispose(): the first call closes the panel (its webview is
\* gone) and fires onDidDispose, whose listener is () => destroyTerminal(id);
\* a call on a disposed panel does nothing.
EditorPanelDispose(s, id) ==
    IF id \in s.openPanels
    THEN DestroyTerminal([ s EXCEPT !.openPanels = @ \ {id} ], id)
    ELSE s

\* Faulty variant of DestroyPanelTab: the visibility of the view is not asked.
DestroyPanelTabAnyView(s, id) ==
    LET s1 == PanelRemoveTerminal(s, id)
    IN  IF PanelTerminals(s1) = {} THEN Effect(s1, "close-panel", id) ELSE s1

\* Location-aware teardown of destroyTerminal, for a panel session: remove the
\* tab (the tree provider's entry goes with it), and close the panel when no
\* panel session is left and the view shows.
DestroyPanelTab(s, id) ==
    LET s1 == PanelRemoveTerminal(s, id)
    IN  IF PanelTerminals(s1) = {} /\ PanelIsVisible(s1)
        THEN Effect(s1, "close-panel", id)
        ELSE s1

\* Faulty variant of DeleteInstance: the whole registry is emptied.
DeleteEveryInstance(s, id) ==
    [ s EXCEPT !.terminals = << >>,
               !.accepted = << >>,
               !.delivered = << >>,
               !.knownCwd = << >>,
               !.handshaken = {},
               !.destroyed = @ \cup {id} ]

\* Faulty variant of DeleteInstance: the session stays in the registry.
DeleteNothing(s, id) == [ s EXCEPT !.destroyed = @ \cup {id} ]

\* this.terminals.delete(id) of destroyTerminal; the session's history goes
\* with it.
DeleteInstance(s, id) ==
    [ s EXCEPT !.terminals = MapDelete(@, id),
               !.accepted = MapDelete(@, id),
               !.delivered = MapDelete(@, id),
               !.knownCwd = MapDelete(@, id),
               !.handshaken = @ \ {id},
               !.destroyed = @ \cup {id} ]

\* destroyTerminal(id)
DestroyTerminal(s, id) ==
    IF ~Registered(s, id) THEN s
    ELSE LET instance == s.terminals[id]
             s1 == DeleteInstance(s, id)
             s2 == [ Effect(s1, "release", id) EXCEPT
                        !.usedIndices = ReleaseIndex(@, instance.index) ]
             s3 == IF instance.readyTimeout
                   THEN [ s2 EXCEPT !.readyTimers = @ \ {id} ]
                   ELSE s2
             s4 == PtyKill(s3, id)
         IN  IF instance.location = "editor"
             THEN EditorPanelDispose(s4, id)
             ELSE DestroyPanelTab(s4, id)

\* Faulty variant of NewInstance: the session counts as ready from creation.
NewInstanceReady(location, title, index) ==
    [ location |-> location, ready |-> TRUE, readyTimeout |-> FALSE,
      dataQueue |-> << >>, title |-> title, index |-> index,
      currentCwd |-> NoCwd ]

\* The instance object createEditorTerminal / createPanelTerminal builds.
NewInstance(location, title, index) ==
    [ location |-> location, ready |-> FALSE, readyTimeout |-> FALSE,
      dataQueue |-> << >>, title |-> title, index |-> index,
      currentCwd |-> NoCwd ]

\* terminals.set(id, instance), with the new session's history entries.
Register(s, id, instance) ==
    [ s EXCEPT !.nextId = id + 1,
               !.terminals = MapSet(@, id, instance),
               !.accepted = MapSet(@, id, << >>),
               !.delivered = MapSet(@, id, << >>),
               !.knownCwd = MapSet(@, id, NoCwd) ]

\* The rollback of a failed spawn: terminals.delete(id); releaseIndex(index).
Unregister(s, id, index) ==
    [ s EXCEPT !.terminals = MapDelete(@, id),
               !.accepted = MapDelete(@, id),
               !.delivered = MapDelete(@, id),
               !.knownCwd = MapDelete(@, id),
               !.usedIndices = ReleaseIndex(@, index) ]

\* instance.readyTimeout = setTimeout(..., READY_TIMEOUT_MS)
ArmReadyTimeout(s, id) ==
    [ s EXCEPT !.terminals[id].readyTimeout = TRUE, !.readyTimers = @ \cup {id} ]

\* spawnPty on failure: showErrorMessage("Failed to start terminal: ...")
SpawnFailed(s, id) == ShowErrorMessage(s, id, "spawn")

\* createEditorTerminal(config); spawnOk is the outcome of pty.spawn.  When
\* the spawn fails the panel is disposed before onDidDispose is listened to.
CreateEditorTerminal(s, spawnOk) ==
    LET id == s.nextId
        index == GetNextIndex(s.usedIndices)
        s1 == Register([ s EXCEPT !.usedIndices = @ \cup {index} ], id,
                       NewInstance("editor", DefaultTitle(index), index))
    IN  IF ~spawnOk
        THEN Unregister(SpawnFailed(s1, id), id, index)
        ELSE LET s2 == ArmReadyTimeout(PtySpawnOk(s1, id), id)
             IN  [ s2 EXCEPT !.openPanels = @ \cup {id} ]

\* createPanelTerminal(config)
CreatePanelTerminal(s, spawnOk) ==
    LET id == s.nextId
        index == GetNextIndex(s.usedIndices)
        title == DefaultTitle(index)
        s1 == Register([ s EXCEPT !.usedIndices = @ \cup {index} ], id,
                       NewInstance("panel", title, index))
    IN  IF ~spawnOk
        THEN Unregister(SpawnFailed(s1, id), id, index)
        ELSE PanelAddTerminal(ArmReadyTimeout(PtySpawnOk(s1, id), id),
                              id, title, TRUE)

\* createPanelTerminalWithTitle(title, makeActive)
CreatePanelTerminalWithTitle(s, title, makeActive, spawnOk) ==
    LET id == s.nextId
        index == IndexOfTitle(title)
        s0 == IF index # NoIndex
              THEN [ s EXCEPT !.usedIndices = @ \cup {index} ]
              ELSE s
        s1 == Register(s0, id, NewInstance("panel", title, index))
    IN  IF ~spawnOk
        THEN Unregister(SpawnFailed(s1, id), id, index)
        ELSE PanelAddTerminal(ArmReadyTimeout(PtySpawnOk(s1, id), id),
                              id, title, makeActive)

\* handlePtyData(id, data) from the buffering decision on.
BufferOrForward(s, id, data) ==
    IF ~s.terminals[id].ready
    THEN IF Len(s.terminals[id].dataQueue) < MAX_DATA_QUEUE_SIZE
         THEN [ s EXCEPT !.terminals[id].dataQueue = Append(@, data),
                         !.accepted[id] = Append(@, data.n) ]
         ELSE s
    ELSE [ PostToTerminal(s, id, [ type |-> "pty-data", terminalId |-> id,
                                   data |-> data ])
             EXCEPT !.accepted[id] = Append(@, data.n) ]

\* handlePtyData(id, data).  decodeURIComponent throws inside parseOSC7, before
\* anything is changed.  (The OSC 9 notification only calls
\* showInformationMessage: no state.)
HandlePtyData(s, id, data) ==
    IF ~Registered(s, id) THEN s
    ELSE IF MatchOSC7(data) # NoCwd /\ DecodeThrows(MatchOSC7(data))
         THEN Effect(s, "URIError", id)
         ELSE LET cwd == ParseOSC7(data)
                  s1 == IF cwd # NoCwd
                        THEN LET s0 == [ s EXCEPT !.terminals[id].currentCwd = cwd ]
                             IN  IF s0.terminals[id].ready
                                 THEN PostToTerminal(s0, id,
                                        [ type |-> "update-cwd", terminalId |-> id,
                                          cwd |-> cwd ])
                                 ELSE s0
                        ELSE s
              IN  BufferOrForward(s1, id, data)

\* Faulty variant of FlushDataQueue: only the oldest chunk is posted.
FlushOldestOnly(s, id, queue) ==
    IF queue = << >> THEN s
    ELSE PostToTerminal(s, id, [ type |-> "pty-data", terminalId |-> id,
                                 data |-> Head(queue) ])

\* The flush loop of handleTerminalReady: one pty-data message per queued chunk.
RECURSIVE FlushDataQueue(_, _, _)
FlushDataQueue(s, id, queue) ==
    IF queue = << >> THEN s
    ELSE FlushDataQueue(
            PostToTerminal(s, id, [ type |-> "pty-data", terminalId |-> id,
                                    data |-> Head(queue) ]),
            id, Tail(queue))

\* getDisplaySettings(), resolveTerminalTheme() and getRuntimeConfig() read the
\* VS Code configuration at the moment of the call; the bell style of the
\* runtime config is part of the "bootty" configuration.
GetDisplaySettings(s) == s.settings
ResolveTerminalTheme(s) == s.theme
GetRuntimeConfig(s) == s.settings

UpdateSettings(s, id) ==
    [ type |-> "update-settings", terminalId |-> id, settings |-> GetDisplaySettings(s) ]
UpdateTheme(s, id) ==
    [ type |-> "update-theme", terminalId |-> id, theme |-> ResolveTerminalTheme(s) ]
UpdateConfig(s) ==
    [ type |-> "update-config", config |-> GetRuntimeConfig(s) ]

\* Faulty variant of PostInitialState: the theme goes out before the settings.
PostInitialStateThemeFirst(s, id) ==
    LET s1 == PostToTerminal(s, id, UpdateTheme(s, id))
        s2 == PostToTerminal(s1, id, UpdateSettings(s, id))
    IN  PostToTerminal(s2, id, UpdateConfig(s))

\* The three initial messages of handleTerminalReady.
PostInitialState(s, id) ==
    LET s1 == PostToTerminal(s, id, UpdateSettings(s, id))
        s2 == PostToTerminal(s1, id, UpdateTheme(s, id))
    IN  PostToTerminal(s2, id, UpdateConfig(s))

\* broadcastSettingsUpdate / broadcastThemeUpdate: the loop over the registry
\* in insertion order, posting to the sessions that are ready.
RECURSIVE BroadcastSettingsLoop(_, _)
BroadcastSettingsLoop(s, ids) ==
    IF ids = {} THEN s
    ELSE LET id == CHOOSE x \in ids : \A y \in ids : x <= y
         IN  BroadcastSettingsLoop(
                IF s.terminals[id].ready
                THEN PostToTerminal(s, id, UpdateSettings(s, id))
                ELSE s,
                ids \ {id})

BroadcastSettingsUpdate(s) == BroadcastSettingsLoop(s, DOMAIN s.terminals)

RECURSIVE BroadcastThemeLoop(_, _)
BroadcastThemeLoop(s, ids) ==
    IF ids = {} THEN s
    ELSE LET id == CHOOSE x \in ids : \A y \in ids : x <= y
         IN  BroadcastThemeLoop(
                IF s.terminals[id].ready
                THEN PostToTerminal(s, id, UpdateTheme(s, id))
                ELSE s,
                ids \ {id})

BroadcastThemeUpdate(s) == BroadcastThemeLoop(s, DOMAIN s.terminals)

\* The onDidChangeConfiguration listener of the constructor: the settings are
\* broadcast when the event affects "bootty" or the editor font, the theme
\* when it affects workbench.colorCustomizations.
OnDidChangeConfiguration(s, affectsSettings, affectsTheme) ==
    LET s1 == IF affectsSettings THEN BroadcastSettingsUpdate(s) ELSE s
    IN  IF affectsTheme THEN BroadcastThemeUpdate(s1) ELSE s1

\* Faulty variant of ClearReadyTimeout: the timer is left pending.
LeaveReadyTimeout(s, id) == s

\* clearTimeout(instance.readyTimeout); instance.readyTimeout = undefined
ClearReadyTimeout(s, id) ==
    IF s.terminals[id].readyTimeout
    THEN [ s EXCEPT !.readyTimers = @ \ {id}, !.terminals[id].readyTimeout = FALSE ]
    ELSE s

\* handleTerminalReady(id, cols, rows)
HandleTerminalReady(s, id, cols, rows) ==
    IF ~Registered(s, id) THEN s
    ELSE LET s1 == ClearReadyTimeout(s, id)
             s2 == PtyResize(s1, id, cols, rows)
             s3 == [ s2 EXCEPT !.terminals[id].ready = TRUE,
                               !.handshaken = @ \cup {id} ]
             s4 == PostInitialState(s3, id)
             s5 == FlushDataQueue(s4, id, s4.terminals[id].dataQueue)
         IN  [ s5 EXCEPT !.terminals[id].dataQueue = << >> ]

\* Faulty variant of HandlePtyExit: the session is torn down at once.
HandlePtyExitNoDelay(s, id, exitCode) ==
    IF ~Registered(s, id) THEN s
    ELSE DestroyTerminal(
            PostToTerminal(s, id, [ type |-> "pty-exit", terminalId |-> id,
                                    exitCode |-> exitCode ]), id)

\* handlePtyExit(id, exitCode)
HandlePtyExit(s, id, exitCode) ==
    IF ~Registered(s, id) THEN s
    ELSE [ PostToTerminal(s, id, [ type |-> "pty-exit", terminalId |-> id,
                                   exitCode |-> exitCode ])
             EXCEPT !.exitTimers = @ \cup {id} ]

\* handlePtyError(id, error)
HandlePtyError(s, id, text) ==
    IF ~Registered(s, id) THEN s
    ELSE DestroyTerminal(
            IF ~IsExpectedClose(text) THEN ShowErrorMessage(s, id, "error") ELSE s,
            id)

\* The ready-timeout callback: if (!instance.ready) { showErrorMessage(...);
\* destroyTerminal(id) }.  instance is the object the timer was armed for; a
\* pending timer always belongs to a registered session (TimersOfRegistered).
ReadyTimeoutCallback(s, id) ==
    IF Registered(s, id) /\ s.terminals[id].ready THEN s
    ELSE DestroyTerminal(ShowErrorMessage(s, id, "timeout"), id)

\* One iteration of the loop of dispose().
DisposeOne(s, id) ==
    LET instance == s.terminals[id]
        s1 == IF instance.readyTimeout
              THEN [ s EXCEPT !.readyTimers = @ \ {id} ]
              ELSE s
        s2 == PtyKill(s1, id)
    IN  IF instance.location = "editor" THEN EditorPanelDispose(s2, id) ELSE s2

\* The loop of dispose() over the registry, in insertion order; an entry a
\* re-entrant destroyTerminal has deleted is not visited.
RECURSIVE DisposeLoop(_, _)
DisposeLoop(s, ids) ==
    IF ids = {} THEN s
    ELSE LET id == CHOOSE x \in ids : \A y \in ids : x <= y
         IN  DisposeLoop(IF Registered(s, id) THEN DisposeOne(s, id) ELSE s,
                         ids \ {id})

\* Faulty variant of ManagerDispose: the registry is not cleared.
ManagerDisposeKeepsRegistry(s) ==
    [ PtyDispose(DisposeLoop(s, DOMAIN s.terminals)) EXCEPT !.disposed = TRUE ]

\* dispose()
ManagerDispose(s) ==
    LET s1 == DisposeLoop(s, DOMAIN s.terminals)
        s2 == [ s1 EXCEPT !.terminals = << >>, !.accepted = << >>,
                          !.delivered = << >>, !.knownCwd = << >>,
                          !.handshaken = {} ]
    IN  [ PtyDispose(s2) EXCEPT !.disposed = TRUE ]

\* The panel-ready branch of the provider's onDidReceiveMessage: each pending
\* tab goes to handlePanelMessage as new-tab-requested-with-title.
RECURSIVE RestorePending(_, _, _)
RestorePending(s, pending, spawnOks) ==
    IF pending = << >> THEN s
    ELSE RestorePending(
            CreatePanelTerminalWithTitle(s, Head(pending).title,
                                         Head(pending).makeActive, Head(spawnOks)),
            Tail(pending), Tail(spawnOks))

OnPanelReady(s, spawnOks) ==
    LET s1 == FlushMessageQueue([ s EXCEPT !.isReady = TRUE ])
        s2 == RestorePending(s1, s1.pendingTerminals, spawnOks)
    IN  [ s2 EXCEPT !.pendingTerminals = << >> ]

\* ------------------------------------------------- file cache (file-cache.ts)
\* A value that may be undefined: << >> is undefined, << v >> is v.
Undefined == << >>
Value(v) == << v >>

\* JavaScript truthiness of a string key: the empty string is falsy.
Truthy(key) == key # ""

\* Map.has, Map.get, Map.delete and Map.set on a sequence of entries in
\* insertion order: set keeps the place of a key that is present and puts a
\* new key at the end.
CacheHas(cache, path) == \E i \in 1..Len(cache) : cache[i].path = path
CacheEntryOf(cache, path) == cache[CHOOSE i \in 1..Len(cache) : cache[i].path = path]
CacheDelete(cache, path) == SelectSeq(cache, LAMBDA e : e.path # path)
CacheMapSet(cache, entry) ==
    IF CacheHas(cache, entry.path)
    THEN [ i \in 1..Len(cache) |->
              IF cache[i].path = entry.path THEN entry ELSE cache[i] ]
    ELSE Append(cache, entry)

\* Faulty variant of CacheGet: a read refreshes the entry's timestamp.
CacheGetRefreshes(cache, path, t, ttlMs) ==
    IF ~CacheHas(cache, path) THEN [ cache |-> cache, value |-> Undefined ]
    ELSE LET entry == CacheEntryOf(cache, path)
         IN  IF t - entry.timestamp > ttlMs
             THEN [ cache |-> CacheDelete(cache, path), value |-> Undefined ]
             ELSE [ cache |-> CacheMapSet(CacheDelete(cache, path),
                                          [ entry EXCEPT !.timestamp = t ]),
                    value |-> Value(entry.exists) ]

\* get(path) at time t: the cache afterwards and the value returned.
CacheGet(cache, path, t, ttlMs) ==
    IF ~CacheHas(cache, path) THEN [ cache |-> cache, value |-> Undefined ]
    ELSE LET entry == CacheEntryOf(cache, path)
         IN  IF t - entry.timestamp > ttlMs
             THEN [ cache |-> CacheDelete(cache, path), value |-> Undefined ]
             ELSE [ cache |-> CacheMapSet(CacheDelete(cache, path), entry),
                    value |-> Value(entry.exists) ]

\* The eviction of set(): const firstKey = cache.keys().next().value;
\* if (firstKey) cache.delete(firstKey)
CacheEvict(cache) ==
    IF cache # << >> /\ Truthy(Head(cache).path)
    THEN CacheDelete(cache, Head(cache).path)
    ELSE cache

\* set(path, exists) at time t
CacheSet(cache, path, exists, t, maxSize) ==
    LET c1 == IF CacheHas(cache, path) THEN CacheDelete(cache, path)
              ELSE IF Len(cache) >= maxSize THEN CacheEvict(cache)
              ELSE cache
    IN  CacheMapSet(c1, [ path |-> path, exists |-> exists, timestamp |-> t ])

\* clear() and size()
CacheClear == << >>
CacheSize(cache) == Len(cache)

\* ------------------------------------------------- webview (webview/main.ts)
\* The webview's state as one record, for its handlers.
Web ==
    [ now |-> now, cacheConfig |-> cacheConfig, fileCache |-> fileCache,
      nextBatchId |-> nextBatchId, currentBatchId |-> currentBatchId,
      currentBatchCallbacks |-> currentBatchCallbacks,
      pendingBatches |-> pendingBatches,
      batchDebounceTimer |-> batchDebounceTimer, batchTimeouts |-> batchTimeouts,
      requests |-> requests, sent |-> sent, calls |-> calls,
      reported |-> reported, lastSet |-> lastSet, lastGet |-> lastGet,
      refCache |-> refCache, lastKey |-> lastKey ]

CommitWeb(w) ==
    /\ now' = w.now
    /\ cacheConfig' = w.cacheConfig
    /\ fileCache' = w.fileCache
    /\ nextBatchId' = w.nextBatchId
    /\ currentBatchId' = w.currentBatchId
    /\ currentBatchCallbacks' = w.currentBatchCallbacks
    /\ pendingBatches' = w.pendingBatches
    /\ batchDebounceTimer' = w.batchDebounceTimer
    /\ batchTimeouts' = w.batchTimeouts
    /\ requests' = w.requests
    /\ sent' = w.sent
    /\ calls' = w.calls
    /\ reported' = w.reported
    /\ lastSet' = w.lastSet
    /\ lastGet' = w.lastGet
    /\ refCache' = w.refCache
    /\ lastKey' = w.lastKey

WebCommit(w) ==
    /\ CommitWeb(w)
    /\ UNCHANGED mgrvars

\* fileCache.get(path) / fileCache.set(path, exists) of the webview
FileCacheGet(w, path) == CacheGet(w.fileCache, path, w.now, w.cacheConfig.ttlMs)

FileCacheSet(w, path, exists) ==
    [ w EXCEPT !.fileCache = CacheSet(@, path, exists, w.now, w.cacheConfig.maxSize),
               !.lastSet[path] = Value([ exists |-> exists, timestamp |-> w.now ]) ]

\* A promise returned by checkFileExists that no batch will resolve.
NoBatch == -1

\* The entry of a batch (a Map from path to callbacks) for path.
BatchHas(batch, path) == \E i \in 1..Len(batch) : batch[i].path = path
BatchGet(batch, path) == batch[CHOOSE i \in 1..Len(batch) : batch[i].path = path].callbacks

\* Faulty variant of AddCallback: every call gets an entry of its own.
AddCallbackDuplicates(batch, path, k) ==
    Append(batch, [ path |-> path, callbacks |-> << k >> ])

\* The batch with callback k added for path (currentBatchCallbacks.get / push
\* / set).
AddCallback(batch, path, k) ==
    IF BatchHas(batch, path)
    THEN [ i \in 1..Len(batch) |->
              IF batch[i].path = path
              THEN [ batch[i] EXCEPT !.callbacks = Append(@, k) ]
              ELSE batch[i] ]
    ELSE Append(batch, [ path |-> path, callbacks |-> << k >> ])

\* Array.from(batchCallbacks.keys())
BatchPaths(batch) == [ i \in 1..Len(batch) |-> batch[i].path ]

\* cb(exists): the resolve function of call k's promise is invoked; a promise
\* keeps its first resolution.
Invoke(w, k, exists) ==
    [ w EXCEPT !.calls[k].invoked = @ + 1,
               !.calls[k].result = IF @ = Undefined THEN Value(exists) ELSE @ ]

\* for (const cb of callbacks) cb(exists)
RECURSIVE InvokeAll(_, _, _)
InvokeAll(w, callbacks, exists) ==
    IF callbacks = << >> THEN w
    ELSE InvokeAll(Invoke(w, Head(callbacks), exists), Tail(callbacks), exists)

\* checkFileExists(path); the call is number Len(calls) + 1.
CheckFileExists(w, path) ==
    LET cached == FileCacheGet(w, path)
        k == Len(w.calls) + 1
    IN  IF cached.value # Undefined
        THEN [ w EXCEPT !.fileCache = cached.cache,
                        !.calls = Append(@, [ path |-> path, batch |-> NoBatch,
                                              at |-> w.now, result |-> cached.value,
                                              invoked |-> 0 ]) ]
        ELSE [ w EXCEPT !.fileCache = cached.cache,
                        !.currentBatchCallbacks = AddCallback(@, path, k),
                        !.batchDebounceTimer = TRUE,
                        !.calls = Append(@, [ path |-> path,
                                              batch |-> w.currentBatchId,
                                              at |-> w.now, result |-> Undefined,
                                              invoked |-> 0 ]) ]

\* Faulty variant of FlushBatchFileChecks: no timeout is set for the batch.
FlushWithoutTimeout(w) ==
    IF w.currentBatchCallbacks = << >> THEN w
    ELSE LET batchId == w.currentBatchId
         IN  [ w EXCEPT !.pendingBatches = MapSet(@, batchId, w.currentBatchCallbacks),
                        !.currentBatchId = w.nextBatchId,
                        !.nextBatchId = @ + 1,
                        !.currentBatchCallbacks = << >>,
                        !.requests = MapSet(@, batchId,
                                            BatchPaths(w.currentBatchCallbacks)),
                        !.sent = Append(@, [ batchId |-> batchId,
                                             paths |-> BatchPaths(w.currentBatchCallbacks) ]) ]

\* Faulty variant of FlushBatchFileChecks: the sealed map stays the
\* accumulating one.
FlushKeepsAccumulating(w) ==
    IF w.currentBatchCallbacks = << >> THEN w
    ELSE LET batchId == w.currentBatchId
             request == [ batchId |-> batchId,
                          paths |-> BatchPaths(w.currentBatchCallbacks) ]
         IN  [ w EXCEPT !.pendingBatches = MapSet(@, batchId, w.currentBatchCallbacks),
                        !.currentBatchId = w.nextBatchId,
                        !.nextBatchId = @ + 1,
                        !.requests = MapSet(@, batchId, request.paths),
                        !.sent = Append(@, request),
                        !.batchTimeouts = @ \cup {batchId} ]

\* flushBatchFileChecks()
FlushBatchFileChecks(w) ==
    IF w.currentBatchCallbacks = << >> THEN w
    ELSE LET batchId == w.currentBatchId
             request == [ batchId |-> batchId,
                          paths |-> BatchPaths(w.currentBatchCallbacks) ]
         IN  [ w EXCEPT !.pendingBatches = MapSet(@, batchId, w.currentBatchCallbacks),
                        !.currentBatchId = w.nextBatchId,
                        !.nextBatchId = @ + 1,
                        !.currentBatchCallbacks = << >>,
                        !.requests = MapSet(@, batchId, request.paths),
                        !.sent = Append(@, request),
                        !.batchTimeouts = @ \cup {batchId} ]

\* The debounce callback: batchDebounceTimer = null; flushBatchFileChecks()
DebounceCallback(w) == FlushBatchFileChecks([ w EXCEPT !.batchDebounceTimer = FALSE ])

\* Faulty variant of ResolveFalse: an unanswered batch resolves true.
RECURSIVE ResolveTrue(_, _)
ResolveTrue(w, batch) ==
    IF batch = << >> THEN w
    ELSE ResolveTrue(
            InvokeAll(FileCacheSet(w, Head(batch).path, TRUE),
                      Head(batch).callbacks, TRUE),
            Tail(batch))

\* The loop of the batch timeout over the batch's entries.
RECURSIVE ResolveFalse(_, _)
ResolveFalse(w, batch) ==
    IF batch = << >> THEN w
    ELSE ResolveFalse(
            InvokeAll(FileCacheSet(w, Head(batch).path, FALSE),
                      Head(batch).callbacks, FALSE),
            Tail(batch))

\* Faulty variant of BatchTimeoutCallback: the batch stays in pendingBatches.
BatchTimeoutKeepsBatch(w, batchId) ==
    IF batchId \in DOMAIN w.pendingBatches
    THEN ResolveFalse(w, w.pendingBatches[batchId])
    ELSE w

\* Faulty variant of BatchTimeoutCallback: every batch in flight is dropped.
BatchTimeoutClearsPending(w, batchId) ==
    IF batchId \in DOMAIN w.pendingBatches
    THEN ResolveFalse([ w EXCEPT !.pendingBatches = << >> ],
                      w.pendingBatches[batchId])
    ELSE w

\* The timeout callback of batch batchId.
BatchTimeoutCallback(w, batchId) ==
    IF batchId \in DOMAIN w.pendingBatches
    THEN ResolveFalse([ w EXCEPT !.pendingBatches = MapDelete(@, batchId) ],
                      w.pendingBatches[batchId])
    ELSE w

\* The loop of the batch-file-exists-result handler over msg.results.
RECURSIVE ApplyResults(_, _, _, _)
ApplyResults(w, batchId, batch, results) ==
    IF results = << >> THEN w
    ELSE LET result == Head(results)
         IN  ApplyResults(
                IF BatchHas(batch, result.path)
                THEN InvokeAll(
                        [ FileCacheSet(w, result.path, result.exists) EXCEPT
                            !.reported = @ \cup { [ batchId |-> batchId,
                                                    path |-> result.path,
                                                    exists |-> result.exists,
                                                    at |-> w.now ] } ],
                        BatchGet(batch, result.path), result.exists)
                ELSE w,
                batchId, batch, Tail(results))

\* Faulty variant of HandleBatchResult: the batch stays in pendingBatches.
HandleBatchResultKeepsBatch(w, batchId, results) ==
    IF batchId \in DOMAIN w.pendingBatches
    THEN ApplyResults(w, batchId, w.pendingBatches[batchId], results)
    ELSE w

\* The batch-file-exists-result case of the webview's message handler.
HandleBatchResult(w, batchId, results) ==
    IF batchId \in DOMAIN w.pendingBatches
    THEN ApplyResults([ w EXCEPT !.pendingBatches = MapDelete(@, batchId) ],
                      batchId, w.pendingBatches[batchId], results)
    ELSE w

\* handleBatchCheckFileExists of the extension: one result per requested
\* path, in order; existsOf[i] is the outcome of fs.stat for the i-th path.
BatchResults(paths, existsOf) ==
    [ i \in 1..Len(paths) |-> [ path |-> paths[i], exists |-> existsOf[i] ] ]

\* The webview after its script has loaded.
WebviewLoaded ==
    /\ now = 0
    /\ fileCache = << >>
    /\ nextBatchId = 1
    /\ currentBatchId = 0
    /\ currentBatchCallbacks = << >>
    /\ pendingBatches = << >>
    /\ batchDebounceTimer = FALSE
    /\ batchTimeouts = {}
    /\ requests = << >>
    /\ sent = << >>
    /\ calls = << >>
    /\ reported = {}
    /\ lastSet = [ p \in CachePaths |-> Undefined ]
    /\ lastGet = Undefined
    /\ refCache = << >>
    /\ lastKey = << >>

\* const fileCache = createFileCache(5000, 100)
MainCache ==
    cacheConfig = [ ttlMs |-> FILE_CACHE_TTL_MS, maxSize |-> FILE_CACHE_MAX_SIZE ]



\* ------------------------------------------------------ key events
\* /[a-zA-Z]/.test(ch) for one character
Letters ==
    { "a", "b", "c", "d", "e", "f", "g", "h", "i", "j", "k", "l", "m", "n", "o",
      "p", "q", "r", "s", "t", "u", "v", "w", "x", "y", "z", "A", "B", "C", "D",
      "E", "F", "G", "H", "I", "J", "K", "L", "M", "N", "O", "P", "Q", "R", "S",
      "T", "U", "V", "W", "X", "Y", "Z" }
HasLetter(key) == \E i \in 1..Len(key) : key[i] \in Letters

\* !event.altKey && event.key.length === 1 && /[a-zA-Z]/.test(event.key)
IsPlainLetter(event) == ~event.altKey /\ Len(event.key) = 1 /\ HasLetter(event.key)

\* getKeyHandlerResult without the Ctrl+C-with-selection branch.
GetKeyHandlerResultIgnoresSelection(event, isMac, hasSelection) ==
    IF isMac
    THEN IF event.metaKey THEN Value(FALSE) ELSE Undefined
    ELSE IF event.ctrlKey
         THEN IF event.shiftKey THEN Value(FALSE)
              ELSE IF IsPlainLetter(event) THEN Undefined
              ELSE Value(FALSE)
         ELSE Undefined

\* getKeyHandlerResult(event, isMac, hasSelection): false, or undefined.
GetKeyHandlerResult(event, isMac, hasSelection) ==
    IF isMac
    THEN IF event.metaKey THEN Value(FALSE)
         ELSE IF event.ctrlKey /\ IsPlainLetter(event) THEN Undefined
         ELSE Undefined
    ELSE IF event.ctrlKey
         THEN IF event.shiftKey THEN Value(FALSE)
              ELSE IF event.key = << "c" >> /\ hasSelection THEN Value(FALSE)
              ELSE IF IsPlainLetter(event) THEN Undefined
              ELSE Value(FALSE)
         ELSE Undefined

\* One key event in the terminal.
KeyDownStep(event, isMac, hasSelection) ==
    [ Web EXCEPT !.lastKey =
        Value([ event |-> event, isMac |-> isMac, hasSelection |-> hasSelection,
                result |-> GetKeyHandlerResult(event, isMac, hasSelection) ]) ]

\* ------------------------------------------------------ resolveConfig
\* An object with string keys is a function on its own keys; { ...a, ...b }
\* keeps a's keys, adds b's and takes b's value where both have the key.
Spread(a, b) ==
    [ n \in DOMAIN a \cup DOMAIN b |-> IF n \in DOMAIN b THEN b[n] ELSE a[n] ]

\* The identification entries resolveConfig writes between the two spreads.
GhosttyIdentification ==
    [ n \in { "TERM_PROGRAM", "TERM_PROGRAM_VERSION", "COLORTERM" } |->
        CASE n = "TERM_PROGRAM" -> "ghostty_vscode"
          [] n = "TERM_PROGRAM_VERSION" -> "0.4.0"
          [] n = "COLORTERM" -> "truecolor" ]

\* partial?.env ?? {}: partial and its env may each be undefined.
PartialEnv(partial) ==
    IF partial = Undefined THEN << >>
    ELSE IF partial[1].env = Undefined THEN << >>
    ELSE partial[1].env[1]

\* resolveConfig with the identification entries written last.
ResolveConfigEnvForcedLast(processEnv, partial) ==
    Spread(Spread(processEnv, PartialEnv(partial)), GhosttyIdentification)

\* resolveConfig(partial).env
ResolveConfigEnv(processEnv, partial) ==
    Spread(Spread(processEnv, GhosttyIdentification), PartialEnv(partial))

\* One call of resolveConfig in a process whose environment is processEnv.
ResolveConfigStep(processEnv, partial) ==
    [ Cur EXCEPT !.lastResolve =
        Value([ processEnv |-> processEnv, partial |-> partial,
                env |-> ResolveConfigEnv(processEnv, partial) ]) ]

\* ------------------------------------------------------ open-url
\* vscode.Uri.parse(url, true): the scheme is what precedes the first ":" when
\* that part holds none of ":", "/", "?", "#"; strict mode throws when the
\* scheme is missing, and a scheme with an illegal character throws too.
LegalSchemes == { "http", "https", "mailto", "ftp", "ssh", "git", "tel",
                 "vscode", "file", "command", "javascript" }
HasScheme(url) == Len(url) >= 2 /\ url[2] = ":" /\ url[1] # ":"
UriParseThrows(url) == ~HasScheme(url) \/ url[1] \notin LegalSchemes
UriParse(url) == [ scheme |-> url[1], rest |-> SubSeq(url, 3, Len(url)) ]

\* TerminalManager.ALLOWED_URL_SCHEMES
ALLOWED_URL_SCHEMES == { "http", "https", "mailto", "ftp", "ssh", "git", "tel" }

OpenExternal(s, uri) ==
    [ s EXCEPT !.effects = Append(@, [ kind |-> "open-external", id |-> 0,
                                       msg |-> [ type |-> "uri", uri |-> uri ] ]) ]

\* handleOpenUrl without the scheme check.
HandleOpenUrlAnyScheme(s, url) ==
    IF UriParseThrows(url) THEN s ELSE OpenExternal(s, UriParse(url))

\* handleOpenUrl(url): the parse error is caught; openExternal's outcome is
\* only logged, a rejection included.
HandleOpenUrl(s, url) ==
    IF UriParseThrows(url) THEN s
    ELSE IF UriParse(url).scheme \notin ALLOWED_URL_SCHEMES THEN s
    ELSE OpenExternal(s, UriParse(url))

\* handleWebviewMessage, case "open-url"
OpenUrlStep(url) ==
    LET t == HandleOpenUrl(Cur, url)
    IN  [ t EXCEPT !.urlLog = Append(@, [ url |-> url, effects |-> t.effects ]) ]

\* ------------------------------------------- file checks, extension side
\* handleBatchCheckFileExists up to its await: without the session it returns,
\* else it starts the stats and is suspended on Promise.all.
HandleBatchCheckFileExists(s, terminalId, batchId, paths) ==
    IF ~Registered(s, terminalId) THEN s
    ELSE [ s EXCEPT !.fileChecks = @ \cup { [ terminalId |-> terminalId,
                                               batchId |-> batchId,
                                               paths |-> paths ] } ]

BatchFileExistsResult(check, existsOf) ==
    [ type |-> "batch-file-exists-result", batchId |-> check.batchId,
      results |-> BatchResults(check.paths, existsOf) ]

\* The resumption had it posted to the panel without looking the session up.
ResumePostsUnguarded(s, check, existsOf) ==
    LET msg == BatchFileExistsResult(check, existsOf)
        s1 == [ s EXCEPT !.fileChecks = @ \ {check} ]
    IN  PanelPostMessage(Posted(s1, check.terminalId, msg), check.terminalId, msg)

\* handleBatchCheckFileExists from its await on: every stat has settled (a
\* failing stat is caught and gives exists: false), the result is posted
\* through postToTerminal.
ResumeBatchCheck(s, check, existsOf) ==
    LET s1 == [ s EXCEPT !.fileChecks = @ \ {check},
                         !.orphaned = IF Registered(s, check.terminalId) THEN @
                                      ELSE @ \cup {check.batchId} ]
    IN  PostToTerminal(s1, check.terminalId, BatchFileExistsResult(check, existsOf))

\* The message of the last step that reached the webview: posted, and not
\* held back in the panel provider's queue.
ResultReached(t, check) ==
    /\ \E i \in 1..Len(t.effects) :
          /\ t.effects[i].kind = "post"
          /\ t.effects[i].msg.type = "batch-file-exists-result"
          /\ t.effects[i].msg.batchId = check.batchId
    /\ t.isReady
    /\ t.view = "visible"

\* ------------------------------------------------- message dispatch
\* A message from a webview: the fields a kind does not carry are left at
\* their defaults.
Message(type, terminalId, dims, url, batchId, paths) ==
    [ type |-> type, terminalId |-> terminalId, cols |-> dims[1], rows |-> dims[2],
      url |-> url, batchId |-> batchId, paths |-> paths ]

\* ptyService.write(id, data)
PtyWrite(s, id) == IF id \in DOMAIN s.instances THEN Effect(s, "write", id) ELSE s

\* handleTerminalInput / handleTerminalResize
HandleTerminalInput(s, id) == PtyWrite(s, id)
HandleTerminalResize(s, id, cols, rows) == PtyResize(s, id, cols, rows)

\* handleOpenFile: opens the document asynchronously, every failure caught.
HandleOpenFile(s) == Effect(s, "open-file", 0)

\* handleTerminalBell: the status bar notice for a registered session (with
\* the bell setting at its default).
HandleTerminalBell(s, id) == IF Registered(s, id) THEN Effect(s, "bell", id) ELSE s

\* handleWebviewMessage(message)
HandleWebviewMessage(s, message) ==
    CASE message.type = "terminal-ready" ->
            HandleTerminalReady(s, message.terminalId, message.cols, message.rows)
      [] message.type = "terminal-input" ->
            HandleTerminalInput(s, message.terminalId)
      [] message.type = "terminal-resize" ->
            HandleTerminalResize(s, message.terminalId, message.cols, message.rows)
      [] message.type = "open-url" -> HandleOpenUrl(s, message.url)
      [] message.type = "open-file" -> HandleOpenFile(s)
      [] message.type = "batch-check-file-exists" ->
            HandleBatchCheckFileExists(s, message.terminalId, message.batchId,
                                       message.paths)
      [] message.type = "terminal-bell" -> HandleTerminalBell(s, message.terminalId)
      [] OTHER -> s

\* handlePanelMessage whose terminal-ready case lacks its break and falls
\* into the default case.
HandlePanelMessageFallsThrough(s, message, spawnOk) ==
    CASE message.type = "panel-ready" -> s
      [] message.type = "terminal-ready" ->
            HandleWebviewMessage(
                HandleTerminalReady(s, message.terminalId, message.cols,
                                    message.rows),
                message)
      [] message.type = "tab-activated" ->
            HandleTerminalResize(s, message.terminalId, message.cols, message.rows)
      [] message.type = "tab-close-requested" ->
            DestroyTerminal(s, message.terminalId)
      [] message.type = "new-tab-requested" -> CreatePanelTerminal(s, spawnOk)
      [] message.type = "toggle-panel-requested" -> s
      [] OTHER -> HandleWebviewMessage(s, message)

\* handlePanelMessage(message); spawnOk is the outcome of the spawn of a
\* new-tab-requested.  (new-tab-requested-with-title and tab-renamed carry a
\* title and are not among the messages of these runs.)
HandlePanelMessage(s, message, spawnOk) ==
    CASE message.type = "panel-ready" -> s
      [] message.type = "terminal-ready" ->
            HandleTerminalReady(s, message.terminalId, message.cols, message.rows)
      [] message.type = "tab-activated" ->
            HandleTerminalResize(s, message.terminalId, message.cols, message.rows)
      [] message.type = "tab-close-requested" ->
            DestroyTerminal(s, message.terminalId)
      [] message.type = "new-tab-requested" -> CreatePanelTerminal(s, spawnOk)
      [] message.type = "toggle-panel-requested" -> s
      [] OTHER -> HandleWebviewMessage(s, message)

\* ------------------------------------------------------------- actions
EmptyMap == << >>

\* The bounds of a run of the manager and of a run of a webview.
ManagerLimits(sessions, chunks, payloads) ==
    [ sessions |-> sessions, chunks |-> chunks, payloads |-> payloads,
      calls |-> 0, time |-> 0, resolves |-> MaxResolves,
      savedTabs |-> MaxSavedTabs, activeFlags |-> { TRUE } ]
WebLimits(maxCalls, maxTime) ==
    [ sessions |-> 0, chunks |-> 0, payloads |-> {}, calls |-> maxCalls,
      time |-> maxTime, resolves |-> 0, savedTabs |-> 0, activeFlags |-> {} ]

\* The state after activate(): nothing created, the panel view not opened.
Activated ==
    /\ terminals = EmptyMap
    /\ usedIndices = {}
    /\ nextId = 1
    /\ instances = EmptyMap
    /\ procs = EmptyMap
    /\ readyTimers = {}
    /\ exitTimers = {}
    /\ openPanels = {}
    /\ view = "none"
    /\ isReady = FALSE
    /\ messageQueue = << >>
    /\ pendingTerminals = << >>
    /\ resolves = 0
    /\ chunkCount = 0
    /\ disposed = FALSE
    /\ settings = 0
    /\ theme = 0
    /\ delivered = EmptyMap
    /\ knownCwd = EmptyMap
    /\ accepted = EmptyMap
    /\ handshaken = {}
    /\ destroyed = {}
    /\ urlLog = << >>
    /\ lastReport = << >>
    /\ fileChecks = {}
    /\ orphaned = {}
    /\ lastResolve = << >>
    /\ effects = << >>

Init ==
    /\ Activated
    /\ WebviewLoaded
    /\ MainCache
    /\ limits = ManagerLimits(MaxSessions, MaxChunks, PlainPayloads)

DataInit ==
    /\ Activated
    /\ WebviewLoaded
    /\ MainCache
    /\ limits = ManagerLimits(DataSessions, DataChunks, Osc7Payloads)

\* Ids created so far.
Created == 1..(nextId - 1)

\* A creation may run while ids are left for it and for the tabs waiting to
\* be restored.
CanCreate == ~disposed /\ nextId + Len(pendingTerminals) <= limits.sessions

\* createTerminal({location: "editor"}) (command bootty.newTerminalInEditor)
NewEditorTerminal ==
    /\ CanCreate
    /\ \E spawnOk \in BOOLEAN : Commit(CreateEditorTerminal(Cur, spawnOk))

\* createTerminal({location: "panel"}) (commands, new-tab-requested)
NewPanelTerminal ==
    /\ CanCreate
    /\ \E spawnOk \in BOOLEAN : Commit(CreatePanelTerminal(Cur, spawnOk))

\* terminal-ready from a webview (handleWebviewMessage / handlePanelMessage);
\* a webview sends it once per terminal.
TerminalReadyStep(id, d) == HandleTerminalReady(Cur, id, d[1], d[2])

TerminalReady ==
    /\ ~disposed
    /\ \E id \in Created \ handshaken, d \in Dims : Commit(TerminalReadyStep(id, d))

\* tab-close-requested (handlePanelMessage) or destroyTerminalById
CloseStep(id) == DestroyTerminal(Cur, id)

CloseRequested ==
    /\ ~disposed
    /\ \E id \in Created : Commit(CloseStep(id))

\* The user closes an editor terminal's tab: VS Code disposes the panel.
EditorPanelClosed ==
    /\ ~disposed
    /\ \E id \in openPanels : Commit(EditorPanelDispose(Cur, id))

\* proc.onData: the process of session id emits its next chunk, numbered
\* chunkCount + 1, carrying the OSC 7 payload given.
PtyDataStep(id, payload) ==
    LET reports == ReportsIn(payload)
    IN  HandlePtyData([ Cur EXCEPT
                          !.chunkCount = @ + 1,
                          !.lastReport = IF reports = << >> THEN @
                                         ELSE MapSet(@, id, reports[Len(reports)]) ],
                      id, [ n |-> chunkCount + 1, osc7 |-> payload ])

PtyData ==
    /\ chunkCount < limits.chunks
    /\ \E id \in DOMAIN procs, payload \in limits.payloads :
          /\ procs[id] = "running"
          /\ Commit(PtyDataStep(id, payload))

\* proc.onExit, also the exit of a process that was killed
PtyExitStep(id, code) == HandlePtyExit([ Cur EXCEPT !.procs[id] = "exited" ], id, code)

PtyExit ==
    \E id \in DOMAIN procs, code \in ExitCodes :
        /\ procs[id] \in { "running", "killed" }
        /\ Commit(PtyExitStep(id, code))

\* proc.on("error") of a process the service holds:
\* handlers.onError(err); this.kill(id)
PtyErrorStep(id, text) == PtyKill(HandlePtyError(Cur, id, text), id)

PtyError ==
    \E id \in DOMAIN instances, text \in ErrorTexts : Commit(PtyErrorStep(id, text))

\* The ready timeout fires.
ReadyTimeoutStep(id) == ReadyTimeoutCallback([ Cur EXCEPT !.readyTimers = @ \ {id} ], id)

ReadyTimeoutFires ==
    \E id \in readyTimers : Commit(ReadyTimeoutStep(id))

\* The exit-delay timer fires: () => this.destroyTerminal(id)
ExitTimerStep(id) == DestroyTerminal([ Cur EXCEPT !.exitTimers = @ \ {id} ], id)

ExitTimerFires ==
    \E id \in exitTimers : Commit(ExitTimerStep(id))

\* Saved panel states VS Code may hand to resolveWebviewView.
SavedTabs ==
    { [ title |-> t, makeActive |-> a ] : t \in SavedTitles, a \in limits.activeFlags }
SavedStates == UNION { [ 1..n -> SavedTabs ] : n \in 0..limits.savedTabs }

\* resolveWebviewView without the loop that queues the saved tabs.
ResolveForgetsSaved(saved) ==
    [ Cur EXCEPT !.view = "visible", !.isReady = FALSE, !.resolves = @ + 1 ]

\* resolveWebviewView(webviewView, context) with context.state.tabs = saved
ResolveStep(saved) ==
    [ Cur EXCEPT !.view = "visible", !.isReady = FALSE,
                 !.pendingTerminals = @ \o saved,
                 !.resolves = @ + 1 ]

\* resolveWebviewView(webviewView, context)
ResolveWebviewView ==
    /\ ~disposed
    /\ view = "none"
    /\ resolves < limits.resolves
    /\ \E saved \in SavedStates :
          /\ nextId + Len(pendingTerminals) + Len(saved) <= limits.sessions + 1
          /\ Commit(ResolveStep(saved))

\* panel-ready from the panel webview (once per loaded webview)
PanelReady ==
    /\ ~disposed
    /\ view # "none"
    /\ ~isReady
    /\ \E spawnOks \in [ 1..Len(pendingTerminals) -> BOOLEAN ] :
          Commit(OnPanelReady(Cur, spawnOks))

\* webviewView.onDidChangeVisibility
VisibilityChanged ==
    /\ ~disposed
    /\ view # "none"
    /\ LET s == [ Cur EXCEPT !.view = IF @ = "visible" THEN "hidden" ELSE "visible" ]
       IN  Commit(IF s.view = "visible" /\ s.isReady THEN FlushMessageQueue(s) ELSE s)

\* webviewView.onDidDispose
ViewDisposed ==
    /\ ~disposed
    /\ view # "none"
    /\ Commit([ Cur EXCEPT !.view = "none", !.isReady = FALSE ])

\* TerminalManager.dispose() on deactivation
Dispose ==
    /\ ~disposed
    /\ Commit(ManagerDispose(Cur))

\* The user edits the configuration: the versions the event affects move on,
\* then VS Code fires onDidChangeConfiguration.
ConfigurationChangedStep(affectsSettings, affectsTheme) ==
    OnDidChangeConfiguration(
        [ Cur EXCEPT !.settings = IF affectsSettings THEN @ + 1 ELSE @,
                     !.theme = IF affectsTheme THEN @ + 1 ELSE @ ],
        affectsSettings, affectsTheme)

ConfigurationChanged ==
    /\ ~disposed
    /\ \E affectsSettings, affectsTheme \in BOOLEAN :
          /\ affectsSettings \/ affectsTheme
          /\ affectsSettings => settings < MaxConfigChanges
          /\ affectsTheme => theme < MaxConfigChanges
          /\ Commit(ConfigurationChangedStep(affectsSettings, affectsTheme))

\* The user switches the colour theme: onDidChangeActiveColorTheme.
ColorThemeChangedStep == BroadcastThemeUpdate([ Cur EXCEPT !.theme = @ + 1 ])

ColorThemeChanged ==
    /\ ~disposed
    /\ theme < MaxConfigChanges
    /\ Commit(ColorThemeChangedStep)

Next ==
    \/ NewEditorTerminal
    \/ NewPanelTerminal
    \/ TerminalReady
    \/ CloseRequested
    \/ EditorPanelClosed
    \/ PtyData
    \/ PtyExit
    \/ PtyError
    \/ ReadyTimeoutFires
    \/ ExitTimerFires
    \/ ResolveWebviewView
    \/ PanelReady
    \/ VisibilityChanged
    \/ ViewDisposed
    \/ Dispose

Spec == Init /\ [][Next]_vars

DataSpec == DataInit /\ [][Next]_vars

\* The isolation runs: several sessions, each chunk carrying a
\* working-directory report.
FrameInit ==
    /\ Activated
    /\ WebviewLoaded
    /\ MainCache
    /\ limits = ManagerLimits(FrameSessions, FrameChunks, ReportPayloads)

FrameSpec == FrameInit /\ [][Next]_vars

\* The runs with configuration changes: the lifecycle runs plus the two
\* configuration listeners.
ConfigInit ==
    /\ Activated
    /\ WebviewLoaded
    /\ MainCache
    /\ limits = ManagerLimits(ConfigSessions, ConfigChunks, CwdPayloads)

ConfigNext ==
    \/ Next
    \/ ConfigurationChanged
    \/ ColorThemeChanged

ConfigSpec == ConfigInit /\ [][ConfigNext]_vars

\* checkFileExists(path), called by the file link provider
CheckFileExistsStep(path) == CheckFileExists(Web, path)

CheckFileExistsCall ==
    /\ Len(calls) < limits.calls
    /\ \E path \in WebPaths : WebCommit(CheckFileExistsStep(path))

\* The debounce timer fires.
DebounceFires ==
    /\ batchDebounceTimer
    /\ WebCommit(DebounceCallback(Web))

\* The timeout of a sent batch fires.
BatchTimeoutStep(batchId) ==
    BatchTimeoutCallback([ Web EXCEPT !.batchTimeouts = @ \ {batchId} ], batchId)

BatchTimeoutFires ==
    \E batchId \in batchTimeouts : WebCommit(BatchTimeoutStep(batchId))

\* The extension handles a request and its reply reaches the webview.
ReplyStep(batchId, existsOf) ==
    HandleBatchResult([ Web EXCEPT !.requests = MapDelete(@, batchId) ], batchId,
                      BatchResults(requests[batchId], existsOf))

ExtensionReplies ==
    \E batchId \in DOMAIN requests :
        \E existsOf \in [ 1..Len(requests[batchId]) -> BOOLEAN ] :
            WebCommit(ReplyStep(batchId, existsOf))

\* The extension handles a request and posts no reply: the session is absent
\* (handleBatchCheckFileExists returns) or postToTerminal drops.
ExtensionDrops ==
    \E batchId \in DOMAIN requests :
        WebCommit([ Web EXCEPT !.requests = MapDelete(@, batchId) ])

\* Time passes in the webview.
Tick ==
    /\ now < limits.time
    /\ WebCommit([ Web EXCEPT !.now = @ + 1 ])

\* The file-check runs: one webview, its extension side reduced to the
\* handling of the batch requests.
BatchInit ==
    /\ Activated
    /\ limits = WebLimits(MaxCalls, MaxTime)
    /\ WebviewLoaded
    /\ MainCache

\* The same with fewer calls, for the runs with fairness.
BatchLiveInit ==
    /\ Activated
    /\ limits = WebLimits(LiveCalls, LiveTime)
    /\ WebviewLoaded
    /\ MainCache

BatchNext ==
    \/ CheckFileExistsCall
    \/ DebounceFires
    \/ BatchTimeoutFires
    \/ ExtensionReplies
    \/ ExtensionDrops
    \/ Tick

BatchSpec == BatchInit /\ [][BatchNext]_vars

\* The event loop of the webview runs every timer callback that is due.
BatchFairSpec ==
    /\ BatchLiveInit
    /\ [][BatchNext]_vars
    /\ WF_vars(DebounceFires)
    /\ WF_vars(BatchTimeoutFires)


\* The restore runs: the panel view is resolved with saved tabs, disposed and
\* resolved again, and its webview reports panel-ready.
RestoreInit ==
    /\ Activated
    /\ WebviewLoaded
    /\ MainCache
    /\ limits = [ ManagerLimits(RestoreSessions, 0, {}) EXCEPT
                    !.resolves = RestoreResolves, !.savedTabs = RestoreTabs,
                    !.activeFlags = BOOLEAN ]

RestoreNext ==
    \/ ResolveWebviewView
    \/ PanelReady
    \/ VisibilityChanged
    \/ ViewDisposed
    \/ NewPanelTerminal
    \/ CloseRequested
    \/ Dispose

RestoreSpec == RestoreInit /\ [][RestoreNext]_vars

\* The file-check runs with both sides: the panel webview sends its batches to
\* the extension, whose handler is suspended on the stats while sessions come
\* and go.
BatchCheckReceived ==
    /\ ~disposed
    /\ isReady
    /\ view = "visible"
    /\ \E batchId \in DOMAIN requests, id \in Created :
          /\ CommitManager(HandleBatchCheckFileExists(Cur, id, batchId,
                                                      requests[batchId]))
          /\ CommitWeb([ Web EXCEPT !.requests = MapDelete(@, batchId) ])

StatsResolveStep(check, existsOf) == ResumeBatchCheck(Cur, check, existsOf)

StatsResolve ==
    \E check \in fileChecks :
        \E existsOf \in [ 1..Len(check.paths) -> BOOLEAN ] :
            LET t == StatsResolveStep(check, existsOf)
            IN  /\ CommitManager(t)
                /\ CommitWeb(IF ResultReached(t, check)
                             THEN HandleBatchResult(Web, check.batchId,
                                                    BatchResults(check.paths, existsOf))
                             ELSE Web)

CheckSessions == 1
CheckCalls == 2
CheckTime == 1

CheckInit ==
    /\ Activated
    /\ WebviewLoaded
    /\ MainCache
    /\ limits = [ ManagerLimits(CheckSessions, 0, {}) EXCEPT
                    !.calls = CheckCalls, !.time = CheckTime, !.savedTabs = 0 ]

CheckNext ==
    \/ ResolveWebviewView
    \/ PanelReady
    \/ NewPanelTerminal
    \/ TerminalReady
    \/ CloseRequested
    \/ CheckFileExistsCall
    \/ DebounceFires
    \/ BatchTimeoutFires
    \/ Tick
    \/ BatchCheckReceived
    \/ StatsResolve

CheckSpec == CheckInit /\ [][CheckNext]_vars

\* The dispatch runs: sessions of both topologies, whose webviews send every
\* kind of message, also for sessions that no longer exist.
DispatchSessions == 2
CommonKinds ==
    { "terminal-ready", "terminal-input", "terminal-resize", "open-url",
      "open-file", "batch-check-file-exists", "terminal-bell" }
PanelKinds ==
    { "panel-ready", "tab-activated", "tab-close-requested", "new-tab-requested",
      "toggle-panel-requested" }
MessagesOf(kinds, ids) ==
    { Message(type, id, d, << "https", ":", "//a.b" >>, 0, << "/a.txt" >>) :
        type \in kinds, id \in ids, d \in Dims }

\* onDidReceiveMessage of an editor panel's webview
WebviewMessageReceived ==
    /\ ~disposed
    /\ \E message \in MessagesOf(CommonKinds, Created) :
          /\ message.terminalId \in openPanels
          /\ Commit(HandleWebviewMessage(Cur, message))

\* The panel provider routes a message of the panel webview, which has
\* reported panel-ready, to the manager.
PanelMessageReceived ==
    /\ ~disposed
    /\ view # "none"
    /\ isReady
    /\ \E message \in MessagesOf(CommonKinds \cup PanelKinds, Created),
          spawnOk \in BOOLEAN :
          /\ message.type = "new-tab-requested" => CanCreate
          /\ Commit(HandlePanelMessage(Cur, message, spawnOk))

DispatchInit ==
    /\ Activated
    /\ WebviewLoaded
    /\ MainCache
    /\ limits = [ ManagerLimits(DispatchSessions, 0, {}) EXCEPT !.savedTabs = 0 ]

DispatchNext ==
    \/ NewEditorTerminal
    \/ NewPanelTerminal
    \/ ResolveWebviewView
    \/ PanelReady
    \/ WebviewMessageReceived
    \/ PanelMessageReceived
    \/ StatsResolve

DispatchSpec == DispatchInit /\ [][DispatchNext]_vars

\* The deactivation runs: sessions of both topologies with file checks
\* suspended, processes exiting and timers pending when dispose() runs, and
\* the callbacks that fire afterwards.
DisposeSessions == 2

DisposeInit ==
    /\ Activated
    /\ WebviewLoaded
    /\ MainCache
    /\ limits = [ ManagerLimits(DisposeSessions, 0, {}) EXCEPT !.savedTabs = 0 ]

DisposeNext ==
    \/ NewEditorTerminal
    \/ NewPanelTerminal
    \/ ResolveWebviewView
    \/ PanelReady
    \/ WebviewMessageReceived
    \/ PanelMessageReceived
    \/ StatsResolve
    \/ PtyExit
    \/ PtyError
    \/ ReadyTimeoutFires
    \/ ExitTimerFires
    \/ Dispose

DisposeSpec == DisposeInit /\ [][DisposeNext]_vars

\* The open-url runs: the webview sends open-url messages.
OpenUrlRequested ==
    /\ Len(urlLog) < MaxUrlRequests
    /\ \E url \in Urls : Commit(OpenUrlStep(url))

UrlInit ==
    /\ Activated
    /\ WebviewLoaded
    /\ MainCache
    /\ limits = ManagerLimits(0, 0, {})

UrlNext == OpenUrlRequested

UrlSpec == UrlInit /\ [][UrlNext]_vars


\* The resolveConfig runs: calls with any inherited environment and any user
\* configuration.
Envs == UNION { [ names -> EnvValues ] : names \in SUBSET EnvNames }
Partials ==
    { Undefined, Value([ env |-> Undefined ]) }
        \cup { Value([ env |-> Value(e) ]) : e \in Envs }

ResolveConfigCall ==
    /\ lastResolve = Undefined
    /\ \E processEnv \in Envs, partial \in Partials :
          Commit(ResolveConfigStep(processEnv, partial))

EnvNext == ResolveConfigCall

EnvSpec == UrlInit /\ [][EnvNext]_vars

\* The key-event runs: any event on either platform, with and without a
\* selection.
KeyEvents ==
    [ key : Keys, ctrlKey : BOOLEAN, shiftKey : BOOLEAN, altKey : BOOLEAN,
      metaKey : BOOLEAN ]

KeyDown ==
    /\ lastKey = Undefined
    /\ \E event \in KeyEvents, isMac \in BOOLEAN, hasSelection \in BOOLEAN :
          WebCommit(KeyDownStep(event, isMac, hasSelection))

KeyNext == KeyDown

KeySpec == UrlInit /\ [][KeyNext]_vars

\* A cache used on its own (file-cache.test.ts): set, get and clear calls in
\* any order while time passes.
CacheConfigs ==
    { [ ttlMs |-> ttl, maxSize |-> size ] : ttl \in 0..MaxTtl, size \in 1..MaxCacheSize }

CacheInit ==
    /\ Activated
    /\ limits = WebLimits(0, CacheTime)
    /\ WebviewLoaded
    /\ cacheConfig \in CacheConfigs

\* A reference LRU map with expiry: the entries in order of their last use
\* (set or get hit), the least recently used first.  A set of a new key at
\* capacity drops the first entry; a get of an entry older than ttlMs drops it.
RefSet(ref, path, exists, t, maxSize) ==
    LET rest == SelectSeq(ref, LAMBDA e : e.path # path)
        kept == IF Len(rest) = Len(ref) /\ Len(ref) >= maxSize /\ ref # << >>
                THEN Tail(ref)
                ELSE rest
    IN  Append(kept, [ path |-> path, exists |-> exists, timestamp |-> t ])

RefGet(ref, path, t, ttlMs) ==
    LET hit == SelectSeq(ref, LAMBDA e : e.path = path)
        rest == SelectSeq(ref, LAMBDA e : e.path # path)
    IN  IF hit = << >> \/ t - hit[1].timestamp > ttlMs THEN rest
        ELSE Append(rest, hit[1])

\* The cache was created with maxSize >= 1.
CacheCreated == cacheConfig.maxSize >= 1

\* cache.set(path, exists)
CacheSetCall ==
    /\ CacheCreated
    /\ \E path \in CachePaths, exists \in BOOLEAN :
          WebCommit([ FileCacheSet(Web, path, exists) EXCEPT
                        !.refCache = RefSet(@, path, exists, now,
                                            cacheConfig.maxSize) ])

\* cache.get(path); found tells whether the Map held an entry for path.
CacheGetStep(path) ==
    LET r == FileCacheGet(Web, path)
    IN  [ Web EXCEPT !.fileCache = r.cache,
                     !.lastGet = Value([ path |-> path, value |-> r.value,
                                         at |-> now,
                                         found |-> CacheHas(fileCache, path) ]),
                     !.refCache = RefGet(@, path, now, cacheConfig.ttlMs) ]

CacheGetCall ==
    /\ CacheCreated
    /\ \E path \in CachePaths : WebCommit(CacheGetStep(path))

\* cache.clear()
CacheClearCall ==
    /\ CacheCreated
    /\ WebCommit([ Web EXCEPT !.fileCache = CacheClear, !.refCache = << >> ])

CacheNext ==
    \/ CacheSetCall
    \/ CacheGetCall
    \/ CacheClearCall
    \/ Tick

CacheSpec == CacheInit /\ [][CacheNext]_vars

\* ------------------------------------------------------------- properties
\* The chunk numbers of a queue of chunks.
ChunkNumbers(queue) == [ i \in 1..Len(queue) |-> queue[i].n ]

\* The numbers of the chunks waiting, as pty-data for session id, in the
\* panel provider's message queue.
QueuedData(id) ==
    LET q == SelectSeq(messageQueue,
                       LAMBDA e : e.sid = id /\ e.msg.type = "pty-data")
    IN  [ i \in 1..Len(q) |-> q[i].msg.data.n ]

\* Entry i of the effects eff is the post of a message of the given type to id.
IsPost(eff, i, id, type) ==
    /\ i \in 1..Len(eff)
    /\ eff[i].kind = "post"
    /\ eff[i].id = id
    /\ eff[i].msg.type = type

\* The effects eff have an entry of the given kind for id.
HasEffect(eff, kind, id) ==
    \E i \in 1..Len(eff) : eff[i].kind = kind /\ eff[i].id = id

\* C1: no pty-data message is posted to a session's UI channel before
\* handleTerminalReady has run for that session; the chunks that arrived
\* earlier are in its dataQueue and nowhere else.
C1_NoDataBeforeReady ==
    /\ \A i \in 1..Len(effects) :
          (effects[i].kind = "post" /\ effects[i].msg.type = "pty-data")
              => effects[i].id \in handshaken
    /\ \A id \in DOMAIN terminals \ handshaken :
          /\ delivered[id] = << >>
          /\ QueuedData(id) = << >>
          /\ accepted[id] = ChunkNumbers(terminals[id].dataQueue)

\* A panel session waits for its handshake with a full queue while the panel
\* view is ready and visible.
C1_Witness ==
    \E id \in DOMAIN terminals \ handshaken :
        /\ terminals[id].location = "panel"
        /\ Len(terminals[id].dataQueue) = MAX_DATA_QUEUE_SIZE
        /\ isReady /\ view = "visible"

\* C2: the pty-data messages that reach a session's UI are its accepted chunks
\* in arrival order, each once: what the webview received, then what waits in
\* the panel provider's message queue, then what waits for the handshake.
C2_OrderedExactlyOnce ==
    \A id \in DOMAIN terminals :
        /\ accepted[id] = delivered[id] \o QueuedData(id)
                             \o ChunkNumbers(terminals[id].dataQueue)
        /\ \A i, j \in 1..Len(accepted[id]) : i < j => accepted[id][i] < accepted[id][j]
        /\ terminals[id].location = "editor" => QueuedData(id) = << >>

\* A panel session got its two buffered chunks at the handshake (the third was
\* not accepted), and a live chunk waits in the provider's queue behind them.
C2_Witness ==
    \E id \in DOMAIN terminals :
        /\ terminals[id].location = "panel"
        /\ delivered[id] = << 1, 2 >>
        /\ QueuedData(id) = << 4 >>

\* C3: a dataQueue never holds more than MAX_DATA_QUEUE_SIZE chunks, and a
\* chunk arriving for a not-ready session whose queue is at the cap is dropped:
\* the queue is unchanged and no exception is raised.
C3_CapDropsSilently ==
    \A id \in DOMAIN terminals :
        /\ Len(terminals[id].dataQueue) <= MAX_DATA_QUEUE_SIZE
        /\ ( /\ ~terminals[id].ready
             /\ Len(terminals[id].dataQueue) = MAX_DATA_QUEUE_SIZE
             /\ procs[id] = "running" )
           => \A payload \in limits.payloads :
                 LET t == PtyDataStep(id, payload)
                 IN  /\ t.terminals[id].dataQueue = terminals[id].dataQueue
                     /\ ~HasEffect(t.effects, "URIError", id)

\* C7: handleTerminalReady(id, cols, rows) on a registered session that is not
\* ready resizes the PTY to (cols, rows), then posts update-settings,
\* update-theme and update-config, then one pty-data per buffered chunk in
\* queue order, and nothing else; the queue is empty afterwards.
C7_HandshakeSequence ==
    \A id \in DOMAIN terminals \ handshaken, d \in Dims :
        LET t == TerminalReadyStep(id, d)
            queue == terminals[id].dataQueue
        IN  /\ Len(t.effects) = 4 + Len(queue)
            /\ t.effects[1].kind = "resize" /\ t.effects[1].id = id
            /\ t.instances[id] = [ cols |-> d[1], rows |-> d[2] ]
            /\ IsPost(t.effects, 2, id, "update-settings")
            /\ IsPost(t.effects, 3, id, "update-theme")
            /\ IsPost(t.effects, 4, id, "update-config")
            /\ \A i \in 1..Len(queue) :
                  IsPost(t.effects, 4 + i, id, "pty-data") /\ t.effects[4 + i].msg.data = queue[i]
            /\ t.terminals[id].dataQueue = << >>
            /\ t.terminals[id].ready

\* A handshake has just flushed a full queue.
C7_Witness ==
    /\ Len(effects) = 4 + MAX_DATA_QUEUE_SIZE
    /\ effects[1].kind = "resize"
    /\ effects[1].id \in handshaken
    /\ IsPost(effects, 4 + MAX_DATA_QUEUE_SIZE, effects[1].id, "pty-data")


\* C8 as the specification states it: whenever the PTY of a registered session
\* reports exit with code c, a pty-exit carrying c is posted to the session's
\* UI channel in that step and the session is still registered; when the
\* exit-delay timer fires the session leaves the registry and its index is free.
ExitDelayTeardown ==
    /\ \A id \in DOMAIN terminals : procs[id] = "exited" => id \in exitTimers
    /\ \A id \in exitTimers \cap DOMAIN terminals :
          LET t == ExitTimerStep(id)
          IN  /\ ~Registered(t, id)
              /\ terminals[id].index # NoIndex
                    => terminals[id].index \notin t.usedIndices

C8_ExitAlwaysReported ==
    /\ \A id \in DOMAIN terminals, c \in ExitCodes :
          procs[id] = "running" =>
              LET t == PtyExitStep(id, c)
              IN  /\ IsPost(t.effects, 1, id, "pty-exit")
                  /\ t.effects[1].msg.exitCode = c
                  /\ Registered(t, id)
    /\ ExitDelayTeardown

\* C8, amended: the pty-exit is posted exactly when the session has completed
\* the ready handshake; for a session that is not ready nothing is posted.
\* Either way the session stays registered, unchanged, with the exit-delay
\* timer pending, until the timer fires.
C8_ExitReportedWhenReady ==
    /\ \A id \in DOMAIN terminals, c \in ExitCodes :
          procs[id] = "running" =>
              LET t == PtyExitStep(id, c)
              IN  /\ Registered(t, id)
                  /\ t.terminals[id] = terminals[id]
                  /\ id \in t.exitTimers
                  /\ IF terminals[id].ready
                     THEN /\ Len(t.effects) = 1
                          /\ IsPost(t.effects, 1, id, "pty-exit")
                          /\ t.effects[1].msg.exitCode = c
                     ELSE t.effects = << >>
    /\ ExitDelayTeardown

\* The exit of a ready session's PTY with code 1 has just been posted.
C8_Witness ==
    \E id \in DOMAIN terminals \cap exitTimers :
        /\ procs[id] = "exited"
        /\ Len(effects) = 1
        /\ IsPost(effects, 1, id, "pty-exit")
        /\ effects[1].msg.exitCode = 1

\* C4: every PTY process the PtyService holds belongs to a registered session.
C4_HeldProcessesRegistered ==
    /\ DOMAIN instances \subseteq DOMAIN terminals
    /\ \A id \in DOMAIN instances : id \in DOMAIN procs

\* One session was torn down and its process is no longer held, while the
\* process of another session still is.
C4_Witness ==
    \E id \in destroyed, other \in DOMAIN instances :
        /\ id \in DOMAIN procs
        /\ id \notin DOMAIN instances
        /\ procs[other] = "running"

\* C5: destroyTerminal(id) for an id already torn down does nothing: the state
\* is unchanged and the call kills, releases, removes and closes nothing.
\* This covers the late call of the exit-delay timer and, within one step, the
\* re-entrant call from the editor panel's onDidDispose.
TeardownKinds == { "kill", "release", "remove-tab", "close-panel" }

C5_DestroyIdempotent ==
    /\ \A id \in destroyed : CloseStep(id) = Cur
    /\ \A id \in destroyed \cap exitTimers :
          ExitTimerStep(id) = [ Cur EXCEPT !.exitTimers = @ \ {id} ]
    /\ \A i, j \in 1..Len(effects) :
          (i < j /\ effects[i].kind \in TeardownKinds
                 /\ effects[i].kind = effects[j].kind)
              => effects[i].id # effects[j].id

\* The exit-delay timer of a session already torn down is still pending, and
\* the index that session released has gone to a newer session.
C5_Witness ==
    \E id \in destroyed \cap exitTimers, other \in DOMAIN terminals :
        /\ other > id
        /\ terminals[other].index = 1

\* C6: no two registered sessions hold the same numeric index, and a creation
\* is given the smallest positive integer no registered session holds.
HeldIndices == { terminals[x].index : x \in DOMAIN terminals } \ { NoIndex }

SmallestFree(held) ==
    CHOOSE n \in 1..(Cardinality(held) + 1) :
        n \notin held /\ \A m \in 1..(n - 1) : m \in held

C6_UniqueSmallestIndex ==
    /\ \A a, b \in DOMAIN terminals :
          (a # b /\ terminals[a].index # NoIndex)
              => terminals[a].index # terminals[b].index
    /\ CanCreate =>
          /\ CreateEditorTerminal(Cur, TRUE).terminals[nextId].index
                = SmallestFree(HeldIndices)
          /\ CreatePanelTerminal(Cur, TRUE).terminals[nextId].index
                = SmallestFree(HeldIndices)

\* C9: a session that is registered and not ready has its ready timeout
\* pending, and the timeout tears it down and shows an error; the handshake
\* cancels the timer, so no timer is pending for a ready session, and the
\* timeout callback leaves a ready session alone.
C9_ReadyTimeout ==
    /\ readyTimers = { id \in DOMAIN terminals : ~terminals[id].ready }
    /\ \A id \in readyTimers :
          LET t == ReadyTimeoutStep(id)
          IN  /\ ~Registered(t, id)
              /\ id \notin DOMAIN t.instances
              /\ HasEffect(t.effects, "timeout", id)
    /\ \A id \in DOMAIN terminals \ handshaken, d \in Dims :
          id \notin TerminalReadyStep(id, d).readyTimers
    /\ \A id \in DOMAIN terminals :
          terminals[id].ready => ReadyTimeoutStep(id) = Cur

\* The timeout has just torn down a session while another one, which
\* completed its handshake, stays.
C9_Witness ==
    \E id \in destroyed, other \in handshaken :
        /\ HasEffect(effects, "timeout", id)
        /\ HasEffect(effects, "kill", id)
        /\ other \in DOMAIN terminals

\* C10: a PTY error of a registered session tears the session down, whatever
\* the message; the error message is shown exactly when the text contains
\* neither EIO nor EOF.
C10_ErrorTeardown ==
    \A id \in DOMAIN terminals \cap DOMAIN instances, text \in ErrorTexts :
        LET t == PtyErrorStep(id, text)
        IN  /\ ~Registered(t, id)
            /\ id \notin DOMAIN t.instances
            /\ HasEffect(t.effects, "kill", id)
            /\ HasEffect(t.effects, "error", id)
                  <=> ( /\ ~Includes(text, << "E", "I", "O" >>)
                        /\ ~Includes(text, << "E", "O", "F" >>) )

\* An error other than EIO / EOF has just torn a session down with a message.
C10_Witness ==
    \E id \in destroyed :
        /\ HasEffect(effects, "error", id)
        /\ HasEffect(effects, "kill", id)
        /\ id \notin DOMAIN instances

\* C11: when the PTY spawn fails during a creation, the state is as before the
\* call: the registry, the used indices, the pending ready timeouts and the
\* held processes are unchanged, and nothing was posted or queued (no add-tab).
\* The three creation paths: createEditorTerminal, createPanelTerminal and,
\* for a tab waiting to be restored, createPanelTerminalWithTitle.
RolledBack(t) ==
    /\ t.terminals = terminals
    /\ t.usedIndices = usedIndices
    /\ t.readyTimers = readyTimers
    /\ t.instances = instances
    /\ t.openPanels = openPanels
    /\ t.messageQueue = messageQueue
    /\ \A i \in 1..Len(t.effects) : t.effects[i].kind = "spawn"

C11_SpawnFailureRollsBack ==
    /\ CanCreate =>
          /\ RolledBack(CreateEditorTerminal(Cur, FALSE))
          /\ RolledBack(CreatePanelTerminal(Cur, FALSE))
    /\ (~disposed /\ pendingTerminals # << >>) =>
          RolledBack(CreatePanelTerminalWithTitle(
                        Cur, Head(pendingTerminals).title,
                        Head(pendingTerminals).makeActive, FALSE))

\* C12: postToTerminal posts nothing when the session is absent or not ready.
\* A settings, theme or cwd update issued while a session is not ready is
\* dropped: nothing is posted for the session, nothing is added for it to the
\* panel provider's queue, and nothing but the cached cwd and the raw output
\* queue is kept in the instance.  The handshake then sends the settings,
\* theme and config current at that moment, followed by the raw output.
ControlMessages(id) ==
    << UpdateSettings(Cur, id), UpdateTheme(Cur, id), UpdateConfig(Cur),
       [ type |-> "update-cwd", terminalId |-> id, cwd |-> "/b c" ],
       [ type |-> "pty-exit", terminalId |-> id, exitCode |-> 0 ] >>

\* The part of the panel provider's queue that is about session id.
QueuedFor(queue, id) == SelectSeq(queue, LAMBDA e : e.sid = id)

\* The outcome t of a step posted and queued nothing for session id.
NothingFor(t, id) ==
    /\ \A i \in 1..Len(t.effects) : t.effects[i].id # id
    /\ QueuedFor(t.messageQueue, id) = QueuedFor(messageQueue, id)
    /\ t.delivered = delivered

ConfigEvents == { << TRUE, FALSE >>, << FALSE, TRUE >>, << TRUE, TRUE >> }

C12_NotReadyDropsControl ==
    /\ \A id \in 1..limits.sessions :
          (~Registered(Cur, id) \/ ~terminals[id].ready)
              => \A k \in 1..Len(ControlMessages(id)) :
                    PostToTerminal(Cur, id, ControlMessages(id)[k]) = Cur
    /\ \A id \in DOMAIN terminals :
          ~terminals[id].ready =>
              /\ \A e \in ConfigEvents :
                    LET t == ConfigurationChangedStep(e[1], e[2])
                    IN  NothingFor(t, id) /\ t.terminals[id] = terminals[id]
              /\ NothingFor(ColorThemeChangedStep, id)
              /\ ColorThemeChangedStep.terminals[id] = terminals[id]
              /\ procs[id] = "running" =>
                    LET t == PtyDataStep(id, "/b%20c")
                    IN  /\ NothingFor(t, id)
                        /\ t.terminals[id].currentCwd = "/b c"
                        /\ t.terminals[id] =
                              [ terminals[id] EXCEPT
                                  !.currentCwd = "/b c",
                                  !.dataQueue = t.terminals[id].dataQueue ]
              /\ \A i \in 1..Len(messageQueue) :
                    messageQueue[i].sid = id => messageQueue[i].msg.type = "add-tab"
              /\ delivered[id] = << >>
    /\ \A id \in DOMAIN terminals :
          terminals[id].ready =>
              LET t == ConfigurationChangedStep(TRUE, FALSE)
              IN  /\ Len(t.effects) >= 1
                  /\ \E i \in 1..Len(t.effects) :
                        /\ IsPost(t.effects, i, id, "update-settings")
                        /\ t.effects[i].msg.settings = settings + 1
    /\ \A id \in DOMAIN terminals \ handshaken, d \in Dims :
          LET t == TerminalReadyStep(id, d)
          IN  /\ IsPost(t.effects, 2, id, "update-settings")
              /\ t.effects[2].msg.settings = settings
              /\ IsPost(t.effects, 3, id, "update-theme")
              /\ t.effects[3].msg.theme = theme
              /\ IsPost(t.effects, 4, id, "update-config")
              /\ t.effects[4].msg.config = settings
              /\ \A i \in 5..Len(t.effects) : IsPost(t.effects, i, id, "pty-data")

\* A handshake has just sent the changed settings and theme, and then the
\* chunk whose working-directory report arrived before the session was ready.
C12_Witness ==
    /\ Len(effects) >= 5
    /\ effects[1].kind = "resize"
    /\ IsPost(effects, 2, effects[1].id, "update-settings")
    /\ effects[2].msg.settings = MaxConfigChanges
    /\ effects[3].msg.theme = MaxConfigChanges
    /\ IsPost(effects, 5, effects[1].id, "pty-data")
    /\ effects[5].msg.data.osc7 = "/b%20c"
    /\ \A i \in 1..Len(effects) : effects[i].kind = "post" => effects[i].msg.type # "update-cwd"

\* C13: tearing down one session, by a close request, the ready timeout, the
\* PTY's exit (the report and, later, the exit-delay timer) or a PTY error,
\* leaves every other session as it was: its registry entry (readiness, output
\* queue, cached cwd, title, index), its PTY process, its timers, its editor
\* panel and what its webview has received.
FrameOf(t, other) ==
    /\ Registered(t, other)
    /\ t.terminals[other] = terminals[other]
    /\ (other \in DOMAIN t.instances) <=> (other \in DOMAIN instances)
    /\ other \in DOMAIN instances => t.instances[other] = instances[other]
    /\ t.procs[other] = procs[other]
    /\ (other \in t.readyTimers) <=> (other \in readyTimers)
    /\ (other \in t.exitTimers) <=> (other \in exitTimers)
    /\ (other \in t.openPanels) <=> (other \in openPanels)
    /\ t.delivered[other] = delivered[other]
    /\ \A i \in 1..Len(t.effects) : t.effects[i].id # other

C13_TeardownFrame ==
    \A id \in DOMAIN terminals, other \in DOMAIN terminals :
        id # other =>
            /\ FrameOf(CloseStep(id), other)
            /\ id \in readyTimers => FrameOf(ReadyTimeoutStep(id), other)
            /\ id \in exitTimers => FrameOf(ExitTimerStep(id), other)
            /\ procs[id] = "running" =>
                  \A c \in ExitCodes : FrameOf(PtyExitStep(id, c), other)
            /\ id \in DOMAIN instances =>
                  \A text \in ErrorTexts : FrameOf(PtyErrorStep(id, text), other)

\* A PTY error has just torn one session down while another session, not yet
\* ready, holds a buffered chunk and the working directory it reported.
C13_Witness ==
    \E id \in destroyed, other \in DOMAIN terminals :
        /\ HasEffect(effects, "error", id)
        /\ HasEffect(effects, "kill", id)
        /\ ~terminals[other].ready
        /\ Len(terminals[other].dataQueue) = 1
        /\ terminals[other].currentCwd = "/b c"
        /\ procs[other] = "running"

\* The calls that joined batch b asking about path, and the number of entries
\* of a path list that are path.
JoinedCalls(b, path) ==
    { k \in 1..Len(calls) : calls[k].batch = b /\ calls[k].path = path }
Occurrences(paths, path) == Cardinality({ i \in 1..Len(paths) : paths[i] = path })

\* The index of path in a path list that holds it.
IndexOfPath(paths, path) == CHOOSE i \in 1..Len(paths) : paths[i] = path

\* C14: the calls of one debounce window (those that joined the same batch)
\* for the same uncached path give exactly one entry for the path in the one
\* batch-check-file-exists request of that batch, and the reply resolves every
\* one of those callers with the exists value it reports for the path.
C14_OneEntryAllCallersResolved ==
    /\ \A i, j \in 1..Len(sent) : i # j => sent[i].batchId # sent[j].batchId
    /\ \A i \in 1..Len(sent), k \in 1..Len(calls) :
          calls[k].batch = sent[i].batchId
              => Occurrences(sent[i].paths, calls[k].path) = 1
    /\ \A k \in 1..Len(calls) :
          calls[k].batch = currentBatchId
              => /\ Occurrences(BatchPaths(currentBatchCallbacks), calls[k].path) = 1
                 /\ \E q \in 1..Len(BatchGet(currentBatchCallbacks, calls[k].path)) :
                       BatchGet(currentBatchCallbacks, calls[k].path)[q] = k
    /\ \A b \in DOMAIN pendingBatches \cap DOMAIN requests :
          \A existsOf \in [ 1..Len(requests[b]) -> BOOLEAN ] :
              LET t == ReplyStep(b, existsOf)
              IN  \A k \in 1..Len(calls) :
                      calls[k].batch = b
                          => /\ t.calls[k].result =
                                   Value(existsOf[IndexOfPath(requests[b], calls[k].path)])
                             /\ t.calls[k].invoked = 1

\* Three calls in one window, for /a.txt, /a.txt and /b.txt, went out as one
\* request for the two paths, and the reply (true, false) resolved all three.
C14_Witness ==
    /\ Len(calls) = 3
    /\ calls[1].path = "/a.txt" /\ calls[2].path = "/a.txt" /\ calls[3].path = "/b.txt"
    /\ sent = << [ batchId |-> 0, paths |-> << "/a.txt", "/b.txt" >> ] >>
    /\ calls[1].result = Value(TRUE)
    /\ calls[2].result = Value(TRUE)
    /\ calls[3].result = Value(FALSE)
    /\ \E r \in reported : r.batchId = 0 /\ r.path = "/a.txt" /\ r.exists

\* C15: when the timeout of a sent batch fires before its reply, every call of
\* the batch is resolved false and false is written to the cache for each of
\* its paths; a reply with that batch id arriving afterwards resolves nothing
\* and writes nothing.
C15_TimeoutThenLateReply ==
    /\ \A b \in batchTimeouts \cap DOMAIN pendingBatches :
          LET t == BatchTimeoutStep(b)
              batch == pendingBatches[b]
          IN  /\ b \notin DOMAIN t.pendingBatches
              /\ \A k \in 1..Len(calls) :
                    calls[k].batch = b
                        => t.calls[k].result = Value(FALSE) /\ t.calls[k].invoked = 1
              /\ \A i \in 1..Len(batch) :
                    /\ t.lastSet[batch[i].path]
                          = Value([ exists |-> FALSE, timestamp |-> now ])
                    /\ Len(batch) <= cacheConfig.maxSize
                          => /\ CacheHas(t.fileCache, batch[i].path)
                             /\ ~CacheEntryOf(t.fileCache, batch[i].path).exists
    /\ \A b \in DOMAIN requests \ DOMAIN pendingBatches :
          \A existsOf \in [ 1..Len(requests[b]) -> BOOLEAN ] :
              ReplyStep(b, existsOf) = [ Web EXCEPT !.requests = MapDelete(@, b) ]

\* The timeout of a batch with two paths has resolved its calls false while
\* its request is still with the extension, so that the reply will be late.
C15_Witness ==
    \E b \in DOMAIN requests :
        /\ b \notin DOMAIN pendingBatches
        /\ b \notin batchTimeouts
        /\ Len(requests[b]) = 2
        /\ \A k \in 1..Len(calls) :
              calls[k].batch = b => calls[k].result = Value(FALSE)
        /\ \A i \in 1..2 : CacheHas(fileCache, requests[b][i])

\* The batches that have been sent.
SentBatches == { sent[i].batchId : i \in 1..Len(sent) }

\* C16: once the reply of a batch has been processed, the later firing of the
\* batch's timeout changes nothing; every callback of a batch is invoked
\* exactly once, by the reply or by the timeout, when the batch is settled,
\* and not before.
C16_ReplyTimeoutExclusive ==
    /\ \A b \in batchTimeouts \ DOMAIN pendingBatches :
          BatchTimeoutStep(b) = [ Web EXCEPT !.batchTimeouts = @ \ {b} ]
    /\ \A k \in 1..Len(calls) :
          calls[k].batch # NoBatch =>
              /\ calls[k].invoked <= 1
              /\ calls[k].invoked = 1 <=> calls[k].result # Undefined
              /\ calls[k].invoked = 1
                    <=> ( /\ calls[k].batch \in SentBatches
                          /\ calls[k].batch \notin DOMAIN pendingBatches )
    /\ DOMAIN pendingBatches \subseteq batchTimeouts

\* The reply of a batch has resolved its calls and the batch's timeout timer
\* is still pending.
C16_Witness ==
    \E b \in batchTimeouts :
        /\ b \notin DOMAIN pendingBatches
        /\ \E r \in reported : r.batchId = b
        /\ \E k \in 1..Len(calls) : calls[k].batch = b /\ calls[k].invoked = 1

\* C17: a call resolves true only if a reply reported exists = true for its
\* path: the reply of the batch the call joined, or an earlier reply whose
\* result the cache still held, within the TTL, when the call was made.
C17_TrueOnlyIfConfirmed ==
    \A k \in 1..Len(calls) :
        calls[k].result = Value(TRUE) =>
            \E r \in reported :
                /\ r.path = calls[k].path
                /\ r.exists
                /\ IF calls[k].batch # NoBatch
                   THEN r.batchId = calls[k].batch
                   ELSE /\ r.at <= calls[k].at
                        /\ calls[k].at - r.at <= cacheConfig.ttlMs

\* A call was answered true from the cache, one tick after the reply that
\* confirmed its path, and an unanswered call for another path resolved false.
C17_Witness ==
    \E k, m \in 1..Len(calls) :
        /\ calls[k].batch = NoBatch
        /\ calls[k].result = Value(TRUE)
        /\ \E r \in reported : r.path = calls[k].path /\ r.exists /\ r.at < calls[k].at
        /\ calls[m].result = Value(FALSE)
        /\ \A r \in reported : r.path # calls[m].path

\* C18: every promise returned by checkFileExists is eventually resolved, with
\* or without a reply of the extension.
C18_EveryCallResolved ==
    \A k \in 1..LiveCalls :
        (Len(calls) >= k) ~> (Len(calls) >= k /\ calls[k].result # Undefined)

\* A call whose request the extension dropped was resolved by the timeout.
C18_Witness ==
    \E k \in 1..Len(calls) :
        /\ calls[k].batch \in SentBatches
        /\ calls[k].batch \notin DOMAIN requests
        /\ calls[k].invoked = 1
        /\ calls[k].result = Value(FALSE)
        /\ \A r \in reported : r.batchId # calls[k].batch

\* C19: while the cache holds an entry for path (it was set and has been
\* neither cleared nor evicted at capacity), the entry is the one of the most
\* recent set: reads leave its timestamp alone.  get(path) returns that value
\* as long as now - timestamp <= ttlMs and keeps the entry; later it returns
\* undefined and removes the entry.  A path without entry gives undefined.
C19_GetUntilTtl ==
    \A path \in CachePaths :
        LET r == CacheGet(fileCache, path, now, cacheConfig.ttlMs)
        IN  IF CacheHas(fileCache, path)
            THEN /\ lastSet[path] # Undefined
                 /\ CacheEntryOf(fileCache, path).exists = lastSet[path][1].exists
                 /\ CacheEntryOf(fileCache, path).timestamp = lastSet[path][1].timestamp
                 /\ IF now - lastSet[path][1].timestamp <= cacheConfig.ttlMs
                    THEN /\ r.value = Value(lastSet[path][1].exists)
                         /\ CacheHas(r.cache, path)
                         /\ CacheEntryOf(r.cache, path).timestamp
                               = lastSet[path][1].timestamp
                    ELSE /\ r.value = Undefined
                         /\ ~CacheHas(r.cache, path)
            ELSE r.value = Undefined /\ r.cache = fileCache

\* A get has just found an entry older than ttlMs, returned undefined and
\* removed it.
C19_Witness ==
    /\ lastGet # Undefined
    /\ lastGet[1].found
    /\ lastGet[1].value = Undefined
    /\ lastGet[1].at = now
    /\ ~CacheHas(fileCache, lastGet[1].path)
    /\ now - lastSet[lastGet[1].path][1].timestamp > cacheConfig.ttlMs

\* C20: after any sequence of set, get and clear calls on a cache created
\* with maxSize >= 1, size() never exceeds maxSize, whatever the keys.
C20_SizeBounded == CacheSize(fileCache) <= cacheConfig.maxSize

\* C21: the cache behaves as a reference LRU map given the same calls: the
\* same keys with the same values, in the same order of recency, so that a
\* set of a new key at capacity evicts exactly the least recently used entry,
\* a get hit and a re-set make their key the most recently used, and a re-set
\* evicts nothing.
C21_RefinesLru == fileCache = refCache

\* The external opens among the effects of a request, and the requests that
\* carry one of the seven schemes.
UrlOpens(effs) == SelectSeq(effs, LAMBDA e : e.kind = "open-external")
UrlAllowed(url) ==
    /\ Len(url) >= 2
    /\ url[2] = ":"
    /\ url[1] \in { "http", "https", "mailto", "ftp", "ssh", "git", "tel" }

\* C22: an open-url request opens its URL externally exactly once when the URL
\* parses in strict mode and its scheme is one of http, https, mailto, ftp,
\* ssh, git, tel; any other request opens nothing; no request raises an
\* exception or does anything else.
C22_OpenOnlyAllowedSchemes ==
    \A i \in 1..Len(urlLog) :
        LET r == urlLog[i]
            opens == UrlOpens(r.effects)
        IN  /\ r.effects = opens
            /\ IF UrlAllowed(r.url)
               THEN /\ Len(opens) = 1
                    /\ opens[1].msg.uri.scheme = r.url[1]
                    /\ << opens[1].msg.uri.scheme, ":" >> \o opens[1].msg.uri.rest = r.url
               ELSE opens = << >>

C22_Witness ==
    \E i, j \in 1..Len(urlLog) :
        /\ urlLog[i].url \in AllowedUrls /\ Len(urlLog[i].effects) = 1
        /\ urlLog[j].url \in OtherSchemeUrls \cup MalformedUrls
        /\ urlLog[j].effects = << >>

SingleLetter(key) ==
    /\ Len(key) = 1
    /\ key[1] \in Letters
TableFalse(k) ==
    IF k.isMac THEN k.event.metaKey
    ELSE /\ k.event.ctrlKey
         /\ \/ k.event.shiftKey
            \/ k.event.key = << "c" >> /\ k.hasSelection
            \/ ~(SingleLetter(k.event.key) /\ ~k.event.altKey)
IsCtrlC(event) ==
    /\ event.key = << "c" >>
    /\ event.ctrlKey
    /\ ~event.shiftKey /\ ~event.altKey /\ ~event.metaKey

ReportedPath(report) ==
    IF DecodeThrows(report) THEN report ELSE DecodeURIComponent(report)

\* The outcome t of a chunk for session id set the working directory to path,
\* posted update-cwd with exactly that path and forwarded the chunk as it is.
CwdReported(t, id, data, path) ==
    /\ t.terminals[id].currentCwd = path
    /\ \E i \in 1..Len(t.effects) :
          /\ IsPost(t.effects, i, id, "update-cwd")
          /\ t.effects[i].msg.cwd = path
    /\ \E i \in 1..Len(t.effects) :
          /\ IsPost(t.effects, i, id, "pty-data")
          /\ t.effects[i].msg.data = data

\* C24: when a chunk carrying a working-directory report for path p is
\* received for a session, the session's currentCwd becomes p, its UI channel
\* receives update-cwd with exactly p, and the chunk is forwarded unmodified.
C24_ReportSetsAndPostsCwd ==
    \A id \in DOMAIN terminals :
        procs[id] = "running" =>
            \A payload \in limits.payloads :
                \A k \in 1..Len(ReportsIn(payload)) :
                    CwdReported(PtyDataStep(id, payload), id,
                                [ n |-> chunkCount + 1, osc7 |-> payload ],
                                ReportedPath(ReportsIn(payload)[k]))

\* C28: every chunk received for a registered session is appended to its
\* queue when the session is not ready and the queue is below the cap, and
\* forwarded as one pty-data message with the same content when the session
\* is ready, whatever the chunk contains; handlePtyData raises no exception.
C28_ChunkQueuedOrForwarded ==
    \A id \in DOMAIN terminals :
        procs[id] = "running" =>
            \A payload \in limits.payloads :
                LET t == PtyDataStep(id, payload)
                    data == [ n |-> chunkCount + 1, osc7 |-> payload ]
                    dataPosts == SelectSeq(t.effects,
                                   LAMBDA e : e.kind = "post" /\ e.id = id
                                              /\ e.msg.type = "pty-data")
                IN  /\ ~HasEffect(t.effects, "URIError", id)
                    /\ ( ~terminals[id].ready
                         /\ Len(terminals[id].dataQueue) < MAX_DATA_QUEUE_SIZE )
                       => /\ t.terminals[id].dataQueue
                               = Append(terminals[id].dataQueue, data)
                          /\ dataPosts = << >>
                    /\ terminals[id].ready
                       => /\ Len(dataPosts) = 1
                          /\ dataPosts[1].msg.data = data
                          /\ t.terminals[id].dataQueue = terminals[id].dataQueue

\* C29: a session's currentCwd is the decoded path of the most recent
\* working-directory report in its output, and undefined until the first.
C29_CwdIsLastReport ==
    \A id \in DOMAIN terminals :
        IF id \notin DOMAIN lastReport
        THEN terminals[id].currentCwd = NoCwd
        ELSE ~DecodeThrows(lastReport[id])
                => terminals[id].currentCwd = DecodeURIComponent(lastReport[id])

\* The add-tab requests for session id among the effects eff.
AddTabs(eff, id) == SelectSeq(eff, LAMBDA e : e.kind = "add-tab" /\ e.id = id)

\* The outcome t of a panel-ready recreated descriptor d as session id,
\* backed by a process that did not exist before.
Recreated(t, id, d) ==
    /\ Registered(t, id)
    /\ t.terminals[id].title = d.title
    /\ t.terminals[id].location = "panel"
    /\ id \notin DOMAIN procs
    /\ id \in DOMAIN t.procs
    /\ t.procs[id] = "running"
    /\ AddTabs(t.effects, id)
          = << [ kind |-> "add-tab", id |-> id,
                 msg |-> [ type |-> "add-tab", terminalId |-> id,
                           title |-> d.title, makeActive |-> d.makeActive ] ] >>

C27_NoTimerOfRemovedSession ==
    /\ readyTimers \subseteq DOMAIN terminals
    /\ exitTimers \subseteq DOMAIN terminals

\* C30: when a session is destroyed while handleBatchCheckFileExists for it
\* is suspended on the file stats, the resumption posts no
\* batch-file-exists-result to any UI channel, raises nothing and changes no
\* state of the manager but the end of the suspended call; the callers of the
\* batch in the webview are resolved by nothing but the batch timeout, which
\* stays armed until it resolves them false.
C30_ResumeAfterDestroyIsSilent ==
    /\ \A check \in fileChecks :
          ~Registered(Cur, check.terminalId) =>
              \A existsOf \in [ 1..Len(check.paths) -> BOOLEAN ] :
                  LET t == StatsResolveStep(check, existsOf)
                  IN  /\ t.effects = << >>
                      /\ t = [ Cur EXCEPT !.fileChecks = @ \ {check},
                                          !.orphaned = @ \cup {check.batchId} ]
    /\ \A k \in 1..Len(calls) :
          calls[k].batch \in orphaned =>
              /\ \A r \in reported : r.batchId # calls[k].batch
              /\ IF calls[k].batch \in batchTimeouts
                 THEN calls[k].result = Undefined
                 ELSE calls[k].result = Value(FALSE)

\* The session was destroyed while the check of its batch was suspended; the
\* check has resumed, and the batch timeout has resolved the caller false.
C30_Witness ==
    /\ destroyed # {}
    /\ fileChecks = {}
    /\ \E k \in 1..Len(calls) :
          /\ calls[k].batch \in orphaned
          /\ calls[k].batch \notin batchTimeouts
          /\ calls[k].result = Value(FALSE)

C32_SameThroughBothHandlers ==
    \A message \in MessagesOf(CommonKinds, Created \cup { nextId }) :
        LET id == message.terminalId
            t == HandleWebviewMessage(Cur, message)
        IN  /\ \A spawnOk \in BOOLEAN : HandlePanelMessage(Cur, message, spawnOk) = t
            /\ message.type = "terminal-ready" =>
                  t = HandleTerminalReady(Cur, id, message.cols, message.rows)
            /\ message.type = "terminal-input" =>
                  t = HandleTerminalInput(Cur, id)
            /\ message.type = "terminal-resize" =>
                  t = HandleTerminalResize(Cur, id, message.cols, message.rows)
            /\ message.type = "open-url" => t = HandleOpenUrl(Cur, message.url)
            /\ message.type = "open-file" => t = HandleOpenFile(Cur)
            /\ message.type = "batch-check-file-exists" =>
                  t = HandleBatchCheckFileExists(Cur, id, message.batchId,
                                                 message.paths)
            /\ message.type = "terminal-bell" => t = HandleTerminalBell(Cur, id)

\* A shared session has just completed its handshake through
\* handlePanelMessage while an isolated session is ready too.
C32_Witness ==
    \E id, other \in DOMAIN terminals :
        /\ terminals[id].location = "panel"
        /\ terminals[other].location = "editor"
        /\ terminals[id].ready /\ terminals[other].ready
        /\ Len(effects) = 4
        /\ effects[1].kind = "resize" /\ effects[1].id = id
        /\ effects[4].kind = "post" /\ effects[4].msg.type = "update-config"

\* The workbench.action.closePanel commands among the effects e.
ClosePanelRequests(e) == { i \in 1..Len(e) : e[i].kind = "close-panel" }

\* C33: destroyTerminal of a shared session issues the close-panel request
\* exactly if no other shared session is registered and the view is
\* visible; destroyTerminal of an isolated session never issues it; and no
\* teardown disposes the shared view.
C33_ClosePanelExactlyWhenLastAndVisible ==
    /\ \A id \in DOMAIN terminals :
          LET t == DestroyTerminal(Cur, id)
              others == { x \in DOMAIN terminals \ {id} :
                            terminals[x].location = "panel" }
              issued == Cardinality(ClosePanelRequests(t.effects))
          IN  /\ id \notin DOMAIN t.terminals
              /\ terminals[id].location = "panel" =>
                    issued = IF others = {} /\ view = "visible" THEN 1 ELSE 0
              /\ terminals[id].location = "editor" => issued = 0
              /\ t.view = view
              /\ t.isReady = isReady
    /\ ClosePanelRequests(effects) # {} =>
          /\ view = "visible"
          /\ \A x \in DOMAIN terminals : terminals[x].location = "editor"

\* The last shared session was closed while the view showed and an isolated
\* session stayed registered: the step asked the workbench to close the panel.
C33_Witness ==
    /\ ClosePanelRequests(effects) # {}
    /\ view = "visible"
    /\ \E other \in DOMAIN terminals : terminals[other].location = "editor"
    /\ \E id \in destroyed : HasEffect(effects, "remove-tab", id)

\* The calls whose callbacks a batch holds.
BatchCalls(batch) ==
    UNION { { batch[i].callbacks[j] : j \in 1..Len(batch[i].callbacks) } :
            i \in 1..Len(batch) }

\* C34: a checkFileExists call made after a batch was sealed and sent joins
\* the accumulating batch, whose id no sent batch has: the call leaves the
\* batches in flight as they are, the reply and the timeout of a batch leave
\* the calls of every other batch as they are, and a call that is not
\* resolved is held by the accumulating batch with the debounce timer armed
\* or by a batch in flight whose timeout is pending.
C34_LateCallJoinsNextBatch ==
    /\ \A b \in SentBatches : b < currentBatchId
    /\ \A path \in WebPaths :
          LET t == CheckFileExistsStep(path)
              k == Len(calls) + 1
          IN  /\ t.pendingBatches = pendingBatches
              /\ t.requests = requests
              /\ t.sent = sent
              /\ \/ t.calls[k].batch = NoBatch /\ t.calls[k].result # Undefined
                 \/ /\ t.calls[k].batch = currentBatchId
                    /\ t.calls[k].result = Undefined
                    /\ BatchHas(t.currentBatchCallbacks, path)
                    /\ k \in BatchCalls(t.currentBatchCallbacks)
                    /\ t.batchDebounceTimer
    /\ \A k \in BatchCalls(currentBatchCallbacks) : calls[k].batch = currentBatchId
    /\ \A b \in DOMAIN pendingBatches :
          /\ b \in SentBatches
          /\ \A k \in BatchCalls(pendingBatches[b]) : calls[k].batch = b
    /\ \A k \in 1..Len(calls) :
          calls[k].result = Undefined =>
              \/ /\ calls[k].batch = currentBatchId
                 /\ k \in BatchCalls(currentBatchCallbacks)
                 /\ batchDebounceTimer
              \/ /\ calls[k].batch \in DOMAIN pendingBatches
                 /\ k \in BatchCalls(pendingBatches[calls[k].batch])
                 /\ calls[k].batch \in batchTimeouts
    /\ \A b \in DOMAIN requests :
          \A existsOf \in [ 1..Len(requests[b]) -> BOOLEAN ] :
              LET t == ReplyStep(b, existsOf)
              IN  /\ t.currentBatchCallbacks = currentBatchCallbacks
                  /\ \A k \in 1..Len(calls) :
                        calls[k].batch # b => t.calls[k] = calls[k]
    /\ \A b \in batchTimeouts :
          LET t == BatchTimeoutStep(b)
          IN  /\ t.currentBatchCallbacks = currentBatchCallbacks
              /\ \A k \in 1..Len(calls) :
                    calls[k].batch # b => t.calls[k] = calls[k]

\* A call for a path was made after the batch holding an earlier call for the
\* same path had been sent; that batch has been resolved since, and the later
\* call waits in the accumulating batch.
C34_Witness ==
    \E k, n \in 1..Len(calls) :
        /\ k < n
        /\ calls[k].path = calls[n].path
        /\ calls[k].batch \in SentBatches
        /\ calls[k].result # Undefined
        /\ calls[n].batch = currentBatchId
        /\ calls[n].result = Undefined
        /\ n \in BatchCalls(currentBatchCallbacks)

\* The paths batch b still holds in pendingBatches.
PendingPaths(b) ==
    IF b \in DOMAIN pendingBatches
    THEN { pendingBatches[b][i].path : i \in 1..Len(pendingBatches[b]) }
    ELSE {}

\* C35: the timeout of batch b resolves false the calls b still holds and
\* writes false to the cache for b's pending paths only; every other batch in
\* flight and the accumulating batch keep their entries and callbacks; and
\* the ids of the sent batches increase strictly, all below the id of the
\* accumulating batch.
C35_TimeoutTouchesOnlyItsBatch ==
    /\ \A b \in batchTimeouts :
          LET t == BatchTimeoutStep(b)
          IN  /\ t.pendingBatches = MapDelete(pendingBatches, b)
              /\ t.currentBatchCallbacks = currentBatchCallbacks
              /\ t.currentBatchId = currentBatchId
              /\ t.nextBatchId = nextBatchId
              /\ t.batchDebounceTimer = batchDebounceTimer
              /\ \A k \in 1..Len(calls) :
                    IF b \in DOMAIN pendingBatches
                       /\ k \in BatchCalls(pendingBatches[b])
                    THEN /\ t.calls[k].result = Value(FALSE)
                         /\ t.calls[k].invoked = calls[k].invoked + 1
                    ELSE t.calls[k] = calls[k]
              /\ \A p \in WebPaths :
                    IF p \in PendingPaths(b)
                    THEN /\ t.lastSet[p] = Value([ exists |-> FALSE, timestamp |-> now ])
                         /\ CacheHas(t.fileCache, p)
                         /\ ~CacheEntryOf(t.fileCache, p).exists
                    ELSE /\ t.lastSet[p] = lastSet[p]
                         /\ CacheHas(t.fileCache, p) <=> CacheHas(fileCache, p)
                         /\ CacheHas(fileCache, p) =>
                               CacheEntryOf(t.fileCache, p) = CacheEntryOf(fileCache, p)
    /\ \A i, j \in 1..Len(sent) : i < j => sent[i].batchId < sent[j].batchId
    /\ \A i \in 1..Len(sent) : sent[i].batchId < currentBatchId
    /\ nextBatchId = currentBatchId + 1

\* The timeout of a batch has resolved it (no reply for it was processed)
\* while another batch is still in flight and a call waits in the
\* accumulating batch.
C35_Witness ==
    \E b \in SentBatches :
        /\ b \notin DOMAIN pendingBatches
        /\ b \notin batchTimeouts
        /\ \A r \in reported : r.batchId # b
        /\ \E k \in 1..Len(calls) : calls[k].batch = b /\ calls[k].result = Value(FALSE)
        /\ \E other \in DOMAIN pendingBatches :
              other # b /\ BatchCalls(pendingBatches[other]) # {}
        /\ BatchCalls(currentBatchCallbacks) # {}

\* C36: between handlers, usedIndices is exactly the set of indices the
\* registered sessions hold.
C36_UsedIndicesAreHeld == ~disposed => usedIndices = HeldIndices

\* The working directories of the update-cwd messages for session id that
\* wait in the panel provider's queue, in order.
QueuedCwd(id) ==
    LET q == SelectSeq(messageQueue,
                       LAMBDA e : e.sid = id /\ e.msg.type = "update-cwd")
    IN  [ i \in 1..Len(q) |-> q[i].msg.cwd ]

\* The working directory session id's surface knows once the provider's queue
\* has been flushed: that of the last update-cwd posted for it.
UiCwd(id) ==
    IF QueuedCwd(id) # << >> THEN QueuedCwd(id)[Len(QueuedCwd(id))]
    ELSE knownCwd[id]

\* C37: once a session has completed its handshake, the working directory of
\* the last update-cwd posted for it is the session's currentCwd, whenever
\* currentCwd is defined.
C37_UiCwdIsCurrentCwd ==
    \A id \in handshaken :
        terminals[id].currentCwd # NoCwd => UiCwd(id) = terminals[id].currentCwd

\* C38: the output chunks of one session held undelivered on the host side,
\* in its dataQueue and as pty-data in the panel provider's queue, never
\* number more than MAX_DATA_QUEUE_SIZE.
C38_UndeliveredBounded ==
    \A id \in DOMAIN terminals :
        Len(terminals[id].dataQueue) + Len(QueuedData(id)) <= MAX_DATA_QUEUE_SIZE

\* C39: after dispose() the registry is empty, PtyService holds no process
\* and no ready timeout is pending; a PTY data, exit or error callback, an
\* exit-delay timer and the completion of a suspended file check change
\* nothing but the end of the timer or of the suspended call: no state, no
\* message, no exception.
C39_DisposedIsInert ==
    disposed =>
        /\ terminals = << >>
        /\ instances = << >>
        /\ readyTimers = {}
        /\ \A id \in Created :
              /\ \A payload \in Osc7Payloads :
                    HandlePtyData(Cur, id, [ n |-> chunkCount + 1, osc7 |-> payload ])
                        = Cur
              /\ \A code \in ExitCodes : HandlePtyExit(Cur, id, code) = Cur
              /\ \A text \in ErrorTexts : PtyKill(HandlePtyError(Cur, id, text), id) = Cur
              /\ DestroyTerminal(Cur, id) = Cur
        /\ \A id \in exitTimers :
              ExitTimerStep(id) = [ Cur EXCEPT !.exitTimers = @ \ {id} ]
        /\ \A check \in fileChecks :
              \A existsOf \in [ 1..Len(check.paths) -> BOOLEAN ] :
                  StatsResolveStep(check, existsOf)
                      = [ Cur EXCEPT !.fileChecks = @ \ {check},
                                     !.orphaned = @ \cup {check.batchId} ]

\* dispose() ran while a shared session's file check was suspended and its
\* process was running; the check has resumed and the exit of the killed
\* process has arrived since, and neither did anything.
C39_Witness ==
    /\ disposed
    /\ destroyed = {}
    /\ fileChecks = {}
    /\ orphaned # {}
    /\ exitTimers = {}
    /\ effects = << >>
    /\ \E id \in DOMAIN procs : procs[id] = "exited"

=============================================================================
